---- MODULE Spec2Model ----
(***************************************************************************)
(* Generators of generate_insurance_data.py as a state machine.            *)
(*                                                                         *)
(* Each generator is a loop over its input that appends rows to its        *)
(* output list; one action models one loop iteration (or the return).      *)
(* A call of random.* is a choice from a small set of the values the call  *)
(* can return (the end points and the middle of a range).  The variable    *)
(* budget bounds how many of a run's draws differ from the draw's first    *)
(* value, so that the runs explored are all runs with at most MaxDraws     *)
(* non-default draws.                                                      *)
(*                                                                         *)
(* Dates are day numbers counted from 2020-01-01 (isoformat() of a date is *)
(* order preserving and one-to-one).  Amounts are in cents (round(x, 2)).  *)
(* None is the empty tuple, a value x that may be None is <<x>>.           *)
(***************************************************************************)
EXTENDS Integers, Sequences, FiniteSets, TLC

\* ------------------------------------------------------------------ bounds
\* Scaled-down row targets of the configuration block (lines 45-53).
NUM_POLICIES == 2
NUM_COVERAGES == 5
NUM_CLAIMS == 2
NUM_CLAIM_TRANSACTIONS == 3
NUM_PREMIUM_TRANSACTIONS == 3
NUM_QUOTES == 2
\* The questions of a batch.
MaxQuestions == 2
\* How many random draws of one run may differ from their default value.
MaxDraws == 2

\* --------------------------------------------------------------- constants
LOB_CODES == <<"HO", "AUTO">>
POLICY_STATUSES == <<"ACTIVE", "CANCELLED", "EXPIRED", "NON_RENEWED", "PENDING">>
CANCEL_REASONS == <<"NON_PAY", "INSURED_REQ", "UW_ACTION", "REWRITE">>
CLAIM_STATUSES == <<"OPEN", "CLOSED", "REOPENED", "SUBROGATION", "LITIGATION">>
CLAIM_TXN_TYPES ==
    <<"RESERVE_SET", "RESERVE_CHANGE", "PAYMENT", "RECOVERY", "EXPENSE">>
PREMIUM_TXN_TYPES ==
    <<"WRITTEN", "EARNED", "UNEARNED", "CEDED", "RETURN", "AUDIT",
      "ENDORSEMENT", "INSTALLMENT">>
QUOTE_STATUSES == <<"QUOTED", "BOUND", "DECLINED", "EXPIRED", "LOST">>
\* Last day rand_date(2020, 2025) can return: (2025-12-31) - (2020-01-01).
RandDateDelta == 2191

None == <<>>
Some(x) == <<x>>

Range(s) == {s[k] : k \in 1..Len(s)}
Max(a, b) == IF a >= b THEN a ELSE b

\* ------------------------------------------------------------ random draws
\* random.randint(a, b): both ends are included.
RandInt(a, b) == {a, (a + b) \div 2, b}
\* round(random.uniform(a, b), 2) in cents, a and b in whole units.
RandAmount(a, b) == RandInt(a * 100, b * 100)
\* rand_date(): a day of 2020-01-01 .. 2025-12-31.
RandDate == RandInt(0, RandDateDelta)
\* random.choice(seq)
RandChoice(s) == Range(s)
\* random.random() < p, for 0 < p < 1
RandBool == {FALSE, TRUE}
\* maybe_null(value, null_pct): None or the value.
MaybeNull(S) == {None} \cup {Some(x) : x \in S}
\* 1 when the draw x is not the default d of its call site.
Dev(x, d) == IF x = d THEN 0 ELSE 1

\* The records of draws (one field per random call, sets[f] the values the
\* call can return) that differ from the record default in at most k fields.
RECURSIVE Choices(_, _, _)
Choices(sets, default, k) ==
    IF k = 0 THEN {default}
    ELSE LET S == Choices(sets, default, k - 1) IN
         S \cup UNION { {[r EXCEPT ![f] = x] : x \in sets[f]} :
                         r \in S, f \in DOMAIN sets }

VARIABLES
    stage,          \* the generator that runs: "policies", "coverages", ...
    pc,             \* "outer": between outer-loop iterations, "inner": in the
                    \* inner loop, "done": the generator has returned
    budget,         \* non-default draws left
    i,              \* outer loop: index of the next (or current) input item
    j,              \* inner loop: iterations done for the current item
    n,              \* inner loop: num_versions / num_covs / num_txns
    base,           \* per-item locals drawn before the inner loop
    next_id,        \* row_id / cov_id / txn_id: the id of the next row
    policies,       \* list of policy version rows
    coverages,
    claims,
    claim_txns,
    premium_txns,
    quotes,
    q,              \* run_eval: the question of the current iteration
    agent_answer,   \* run_eval: what call_agent returned for q
    agent_calls,    \* run_eval: the ids of the questions call_agent was
                    \* called with, in call order
    results,        \* run_eval: the scores appended so far
    score,          \* run_eval: what score_question returned for q
    gold_ran,       \* score_question has called get_gold_answer for q
    error,          \* the exception that ended the run, "" while none has
    lob_year,       \* compute_gold_metrics: the groups, in insertion order
                    \* (gold_lob_year lists the same objects)
    gold_uw,        \* compute_gold_metrics: the underwriting rows so far
    gold_runs,      \* what the calls of compute_gold_metrics returned
    cmp_calls,      \* the calls of compare_numeric made: arguments and result
    gw_rows         \* gen_staging_guidewire_claims: the rows appended so far

\* The state of the generators, of the evaluation harness and of the gold
\* metrics engine.
genVars == <<stage, pc, budget, i, j, n, base, next_id, policies, coverages,
             claims, claim_txns, premium_txns, quotes>>
evalVars == <<q, agent_answer, agent_calls, score, results, gold_ran, error>>
goldVars == <<lob_year, gold_uw, gold_runs>>
cmpVars == <<cmp_calls>>
gwVars == <<gw_rows>>
\* What a generator step leaves alone.
auxVars == <<evalVars, goldVars, cmpVars, gwVars>>
vars == <<genVars, evalVars, goldVars, cmpVars, gwVars>>

\* -------------------------------------------------- gen_policies_with_cdc
\* Line 201: binding = eff - timedelta(days=random.randint(1, 30))
BindingDate(eff, d) == eff - d
\* Mutant of IssueDate: the document is issued before the binding.
IssueDateBeforeBinding(binding, d) == binding - d
\* Line 202: issue = binding + timedelta(days=random.randint(0, 14))
IssueDate(binding, d) == binding + d
\* Line 204: system_entry = issue + timedelta(days=random.randint(0, 5))
SystemEntryDate(issue, d) == issue + d
\* Line 206: booking = system_entry + timedelta(days=random.randint(0, 10))
BookingDate(system_entry, d) == system_entry + d

\* Lines 196-214: the random calls made once per policy_id.
PolicyBaseDraws ==
    [lob |-> RandChoice(LOB_CODES), eff |-> RandDate,
     d_binding |-> RandInt(1, 30), d_issue |-> RandInt(0, 14),
     d_entry |-> RandInt(0, 5), d_booking |-> RandInt(0, 10),
     status |-> RandChoice(POLICY_STATUSES), num_versions |-> {1, 2, 3}]

PolicyBaseDefault ==
    [lob |-> LOB_CODES[1], eff |-> 0, d_binding |-> 1, d_issue |-> 0,
     d_entry |-> 0, d_booking |-> 0, status |-> POLICY_STATUSES[1],
     num_versions |-> 1]

\* The number of non-default draws in b.
PolicyBaseCost(b) ==
    Dev(b.lob, LOB_CODES[1]) + Dev(b.eff, 0) + Dev(b.d_binding, 1)
    + Dev(b.d_issue, 0) + Dev(b.d_entry, 0) + Dev(b.d_booking, 0)
    + Dev(b.status, POLICY_STATUSES[1]) + Dev(b.num_versions, 1)

\* Lines 199-210: the locals of one outer-loop iteration.
PolicyBase(b) ==
    LET binding == BindingDate(b.eff, b.d_binding)
        issue == IssueDate(binding, b.d_issue)
        system_entry == SystemEntryDate(issue, b.d_entry)
    IN [lob |-> b.lob, eff |-> b.eff, binding |-> binding, issue |-> issue,
        system_entry |-> system_entry,
        booking |-> BookingDate(system_entry, b.d_booking),
        status |-> b.status, num_versions |-> b.num_versions]

\* Line 219: _valid_from of version v (0-based), r = random.randint(10, 90).
ValidFrom(system_entry, v, r) == system_entry + v * r

\* Mutant of IsCurrent: the first version is marked current.
IsCurrentFirst(v, num_versions) == v = 0
\* Line 218
IsCurrent(v, num_versions) == v = num_versions - 1

\* Mutant of IsDeleted: the soft-delete draw applies to every version.
IsDeletedAnyVersion(is_current, del) == del
\* Lines 245-248: only a non-current version can be soft-deleted.
IsDeleted(is_current, del) == ~is_current /\ del

\* Lines 216-248, 278-279: what the random calls of one version iteration
\* return (or would return, where the code does not make the call).
VersionDraws(pid) ==
    [r |-> RandInt(10, 90), vt |-> RandInt(10, 90), cancel |-> RandBool,
     cdays |-> RandInt(30, 300), reason |-> RandChoice(CANCEL_REASONS),
     del |-> RandBool, ren |-> MaybeNull(RandInt(1, Max(1, pid - 1)))]

VersionDefault ==
    [r |-> 10, vt |-> 10, cancel |-> FALSE, cdays |-> 30,
     reason |-> CANCEL_REASONS[1], del |-> FALSE, ren |-> None]

\* The number of non-default draws among the calls the code makes for
\* version v: no _valid_to and no soft-delete draw for the current version,
\* no cancellation draws for v = 0 or without the CANCELLED transition.
VersionCost(d, v, num_versions) ==
    LET cur == IsCurrent(v, num_versions) IN
    Dev(d.r, 10) + Dev(d.ren, None)
    + (IF cur THEN 0 ELSE Dev(d.vt, 10) + Dev(d.del, FALSE))
    + (IF v = 0 THEN 0
       ELSE IF ~d.cancel THEN 0
       ELSE 1 + Dev(d.cdays, 30) + Dev(d.reason, CANCEL_REASONS[1]))

\* Lines 250-287: the row appended for version v (0-based) of policy pid.
PolicyRow(row_id, pid, v, b, d) ==
    LET cur == IsCurrent(v, b.num_versions)
        valid_from == ValidFrom(b.system_entry, v, d.r)
        cancelled == v > 0 /\ d.cancel
    IN [row_id |-> row_id,
        policy_id |-> pid,
        policy_number |-> <<"POL", b.lob, pid>>,
        version_number |-> v + 1,
        line_of_business |-> b.lob,
        effective_date |-> b.eff,
        binding_date |-> b.binding,
        issue_date |-> b.issue,
        system_entry_date |-> b.system_entry,
        booking_date |-> b.booking,
        policy_status |-> IF cancelled THEN "CANCELLED" ELSE b.status,
        cancellation_date |-> IF cancelled THEN Some(b.eff + d.cdays) ELSE None,
        cancellation_reason |-> IF cancelled THEN Some(d.reason) ELSE None,
        renewal_of_policy_id |-> d.ren,
        is_current_record |-> cur,
        is_deleted |-> IsDeleted(cur, d.del),
        valid_from |-> valid_from,
        valid_to |-> IF cur THEN None ELSE Some(valid_from + d.vt)]

\* Lines 291-294
get_current_policies(pols) ==
    SelectSeq(pols, LAMBDA p : p.is_current_record /\ ~p.is_deleted)

\* Lines 195-214: one iteration of the outer loop starts.
PolicyBegin ==
    /\ stage = "policies" /\ pc = "outer" /\ i <= NUM_POLICIES
    /\ \E b \in Choices(PolicyBaseDraws, PolicyBaseDefault, budget) :
        /\ PolicyBaseCost(b) <= budget
        /\ budget' = budget - PolicyBaseCost(b)
        /\ base' = PolicyBase(b)
        /\ n' = b.num_versions
    /\ j' = 0
    /\ pc' = "inner"
    /\ UNCHANGED <<stage, i, next_id, policies, coverages, claims, claim_txns,
                   premium_txns, quotes>>
    /\ UNCHANGED auxVars

\* Lines 216-287: one iteration of the version loop.
PolicyVersion ==
    /\ stage = "policies" /\ pc = "inner" /\ j < n
    /\ \E d \in Choices(VersionDraws(i), VersionDefault, budget) :
        /\ VersionCost(d, j, n) <= budget
        /\ budget' = budget - VersionCost(d, j, n)
        /\ policies' = Append(policies, PolicyRow(next_id + 1, i, j, base, d))
    /\ next_id' = next_id + 1
    /\ j' = j + 1
    /\ pc' = IF j + 1 < n THEN "inner" ELSE "outer"
    /\ i' = IF j + 1 < n THEN i ELSE i + 1
    /\ UNCHANGED <<stage, n, base, coverages, claims, claim_txns,
                   premium_txns, quotes>>
    /\ UNCHANGED auxVars

\* Line 288
PolicyReturn ==
    /\ stage = "policies" /\ pc = "outer" /\ i > NUM_POLICIES
    /\ pc' = "done"
    /\ UNCHANGED <<stage, budget, i, j, n, base, next_id, policies, coverages,
                   claims, claim_txns, premium_txns, quotes>>
    /\ UNCHANGED auxVars

\* Lines 216-287: the rows of the version loop of policy pid, the first of
\* them with row_id first_row + 1; ds[v + 1] are the draws of version v.
PolicyVersions(pid, first_row, b, ds) ==
    [v \in 1..b.num_versions |->
        PolicyRow(first_row + v, pid, v - 1, PolicyBase(b), ds[v])]

\* Lines 193-288: the list gen_policies_with_cdc returns for policies 1..pid
\* when draws[p] = [b |-> base draws, d |-> version draws] for policy p.
RECURSIVE GenPolicies(_, _)
GenPolicies(draws, pid) ==
    IF pid = 0 THEN <<>>
    ELSE LET prev == GenPolicies(draws, pid - 1) IN
         prev \o PolicyVersions(pid, Len(prev), draws[pid].b, draws[pid].d)

\* ------------------------------------------------------------ gen_coverages
\* Line 302: num_covs = random.randint(1, 5)
CoverageDraws == [num_covs |-> 1..5]
CoverageDefault == [num_covs |-> 1]
CoverageCost(d) == Dev(d.num_covs, 1)

\* Mutant of CoverageTargetReached: the loop stops one row early.
CoverageTargetReachedEarly(cov_id) == cov_id >= NUM_COVERAGES
\* Line 304: if cov_id > NUM_COVERAGES
CoverageTargetReached(cov_id) == cov_id > NUM_COVERAGES

\* Lines 307-320
CoverageRow(cov_id, pol) ==
    [coverage_id |-> cov_id,
     policy_id |-> pol.policy_id,
     effective_date |-> pol.effective_date]

\* Lines 301-302: the outer loop takes the next current policy.
CoverageBegin ==
    /\ stage = "coverages" /\ pc = "outer"
    /\ i <= Len(get_current_policies(policies))
    /\ \E d \in Choices(CoverageDraws, CoverageDefault, budget) :
        /\ CoverageCost(d) <= budget
        /\ budget' = budget - CoverageCost(d)
        /\ n' = d.num_covs
    /\ base' = get_current_policies(policies)[i]
    /\ j' = 0
    /\ pc' = "inner"
    /\ UNCHANGED <<stage, i, next_id, policies, coverages, claims, claim_txns,
                   premium_txns, quotes>>
    /\ UNCHANGED auxVars

\* Lines 303-321: one iteration of the inner loop; it returns the list as
\* it is once cov_id has passed NUM_COVERAGES.
CoverageAppend ==
    /\ stage = "coverages" /\ pc = "inner" /\ j < n
    /\ IF CoverageTargetReached(next_id)
       THEN /\ pc' = "done"
            /\ UNCHANGED <<i, j, next_id, coverages>>
       ELSE /\ coverages' = Append(coverages, CoverageRow(next_id, base))
            /\ next_id' = next_id + 1
            /\ j' = j + 1
            /\ pc' = IF j + 1 < n THEN "inner" ELSE "outer"
            /\ i' = IF j + 1 < n THEN i ELSE i + 1
    /\ UNCHANGED <<stage, budget, n, base, policies, claims, claim_txns,
                   premium_txns, quotes>>
    /\ UNCHANGED auxVars

\* Line 322
CoverageReturn ==
    /\ stage = "coverages" /\ pc = "outer"
    /\ i > Len(get_current_policies(policies))
    /\ pc' = "done"
    /\ UNCHANGED <<stage, budget, i, j, n, base, next_id, policies, coverages,
                   claims, claim_txns, premium_txns, quotes>>
    /\ UNCHANGED auxVars

\* --------------------------------------------------------------- gen_claims
\* Lines 338-395: the random calls of one claim; pol is the index
\* random.choice(current) picks in a list of num_current rows.
ClaimDraws(num_current) ==
    [pol |-> 1..num_current, loss |-> RandDate, d_report |-> RandInt(0, 60),
     d_entry |-> RandInt(0, 30), d_processing |-> RandInt(0, 7),
     is_closed |-> RandBool, d_close |-> RandInt(30, 730),
     reopen |-> RandBool, d_reopen |-> RandInt(30, 365),
     status |-> RandChoice(CLAIM_STATUSES),
     reserve |-> RandAmount(500, 200000), paid_loss |-> RandAmount(0, 150000),
     litigation |-> RandBool, del |-> RandBool]

ClaimDefault ==
    [pol |-> 1, loss |-> 0, d_report |-> 0, d_entry |-> 0, d_processing |-> 0,
     is_closed |-> FALSE, d_close |-> 30, reopen |-> FALSE, d_reopen |-> 30,
     status |-> CLAIM_STATUSES[1], reserve |-> 50000, paid_loss |-> 0,
     litigation |-> FALSE, del |-> FALSE]

\* The number of non-default draws among the calls the code makes: the
\* close draw only for a closed claim, the reopen draw only for a closed
\* claim (line 349 short-circuits), the reopen delay only when reopened.
ClaimCost(d) ==
    Dev(d.pol, 1) + Dev(d.loss, 0) + Dev(d.d_report, 0) + Dev(d.d_entry, 0)
    + Dev(d.d_processing, 0) + Dev(d.status, CLAIM_STATUSES[1])
    + Dev(d.reserve, 50000) + Dev(d.paid_loss, 0)
    + Dev(d.litigation, FALSE) + Dev(d.del, FALSE)
    + (IF ~d.is_closed THEN 0
       ELSE 1 + Dev(d.d_close, 30)
            + (IF ~d.reopen THEN 0 ELSE 1 + Dev(d.d_reopen, 30)))

\* Mutant of ClaimStatus: the status random.choice drew is kept.
ClaimStatusAsDrawn(status, is_closed, is_reopened) == status
\* Lines 355-359
ClaimStatus(status, is_closed, is_reopened) ==
    IF is_reopened THEN "REOPENED"
    ELSE IF is_closed /\ status # "CLOSED" THEN "CLOSED"
    ELSE status

\* Lines 339-398: the row of claim claim_id on the current policy row pol.
ClaimRow(claim_id, pol, d) ==
    LET report_date == d.loss + d.d_report
        entry_date == report_date + d.d_entry
        close_date == IF d.is_closed THEN Some(report_date + d.d_close)
                      ELSE None
        is_reopened == d.is_closed /\ d.reopen
    IN [claim_id |-> claim_id,
        claim_number |-> <<"CLM", claim_id>>,
        policy_id |-> pol.policy_id,
        policy_number |-> pol.policy_number,
        line_of_business |-> pol.line_of_business,
        loss_date |-> d.loss,
        report_date |-> report_date,
        entry_date |-> entry_date,
        processing_date |-> entry_date + d.d_processing,
        claim_status |-> ClaimStatus(d.status, d.is_closed, is_reopened),
        reserve_amount |-> d.reserve,
        paid_loss_amount |-> d.paid_loss,
        litigation_flag |-> d.litigation,
        close_date |-> close_date,
        reopen_date |-> IF is_reopened
                        THEN Some(report_date + d.d_close + d.d_reopen)
                        ELSE None,
        is_deleted |-> d.del]

\* Lines 337-403: one iteration of the loop.
ClaimAppend ==
    /\ stage = "claims" /\ pc = "outer" /\ i <= NUM_CLAIMS
    /\ LET current == get_current_policies(policies) IN
       \E d \in Choices(ClaimDraws(Len(current)), ClaimDefault, budget) :
        /\ ClaimCost(d) <= budget
        /\ budget' = budget - ClaimCost(d)
        /\ claims' = Append(claims, ClaimRow(i, current[d.pol], d))
    /\ i' = i + 1
    /\ UNCHANGED <<stage, pc, j, n, base, next_id, policies, coverages,
                   claim_txns, premium_txns, quotes>>
    /\ UNCHANGED auxVars

\* Line 404
ClaimsReturn ==
    /\ stage = "claims" /\ pc = "outer" /\ i > NUM_CLAIMS
    /\ pc' = "done"
    /\ UNCHANGED <<stage, budget, i, j, n, base, next_id, policies, coverages,
                   claims, claim_txns, premium_txns, quotes>>
    /\ UNCHANGED auxVars

\* Lines 335-404: the list gen_claims returns for claims 1..k on the policy
\* list pols when draws[c] are the draws of claim c.
RECURSIVE GenClaims(_, _, _)
GenClaims(pols, draws, k) ==
    IF k = 0 THEN <<>>
    ELSE Append(GenClaims(pols, draws, k - 1),
                ClaimRow(k, get_current_policies(pols)[draws[k].pol],
                         draws[k]))

\* Mutant of get_active_claims: soft-deleted claims are kept.
get_all_claims(cls) == cls
\* Lines 407-408
get_active_claims(cls) == SelectSeq(cls, LAMBDA c : ~c.is_deleted)

\* --------------------------------------------------- gen_claim_transactions
\* Line 426: num_txns = random.randint(1, 10)
ClaimTxnBeginDraws == [num_txns |-> 1..10]
ClaimTxnBeginDefault == [num_txns |-> 1]

\* Lines 430-471: the random calls of one inner iteration.
ClaimTxnDraws ==
    [type |-> RandChoice(CLAIM_TXN_TYPES), txn_date |-> RandDate,
     d_posting |-> RandInt(0, 5), amount |-> RandAmount(-5000, 50000),
     void |-> RandBool, d_void |-> RandInt(1, 30),
     d_void_posting |-> RandInt(0, 5)]

ClaimTxnDefault ==
    [type |-> "PAYMENT", txn_date |-> 0, d_posting |-> 0, amount |-> -500000,
     void |-> FALSE, d_void |-> 1, d_void_posting |-> 0]

\* Line 466: the void draw is made for a PAYMENT only.
IsVoided(d) == d.type = "PAYMENT" /\ d.void

\* The number of non-default draws among the calls the code makes.
ClaimTxnCost(d) ==
    Dev(d.type, "PAYMENT") + Dev(d.txn_date, 0) + Dev(d.d_posting, 0)
    + Dev(d.amount, -500000)
    + (IF ~IsVoided(d) THEN 0
       ELSE 1 + Dev(d.d_void, 1) + Dev(d.d_void_posting, 0))

\* Lines 442-462
ClaimTxnRow(txn_id, claim, d) ==
    [transaction_id |-> txn_id,
     claim_id |-> claim.claim_id,
     claim_number |-> claim.claim_number,
     transaction_type |-> d.type,
     transaction_date |-> d.txn_date,
     posting_date |-> d.txn_date + d.d_posting,
     amount |-> d.amount,
     is_void |-> FALSE,
     void_of_transaction_id |-> None]

\* Line 469: void_date = txn_date + timedelta(days=random.randint(1, 30))
VoidDate(txn_date, days) == txn_date + days
\* Mutant of VoidAmount: the VOID repeats the payment's amount.
VoidAmountCopied(amount) == amount
\* Line 480: "amount": -amount
VoidAmount(amount) == 0 - amount

\* Lines 472-490
VoidRow(txn_id, claim, d) ==
    LET void_date == VoidDate(d.txn_date, d.d_void) IN
    [transaction_id |-> txn_id,
     claim_id |-> claim.claim_id,
     claim_number |-> claim.claim_number,
     transaction_type |-> "VOID",
     transaction_date |-> void_date,
     posting_date |-> void_date + d.d_void_posting,
     amount |-> VoidAmount(d.amount),
     is_void |-> TRUE,
     void_of_transaction_id |-> Some(txn_id - 1)]

\* Lines 425-426: the outer loop takes the next active claim.
ClaimTxnBegin ==
    /\ stage = "claim_txns" /\ pc = "outer"
    /\ i <= Len(get_active_claims(claims))
    /\ \E d \in Choices(ClaimTxnBeginDraws, ClaimTxnBeginDefault, budget) :
        /\ Dev(d.num_txns, 1) <= budget
        /\ budget' = budget - Dev(d.num_txns, 1)
        /\ n' = d.num_txns
    /\ base' = get_active_claims(claims)[i]
    /\ j' = 0
    /\ pc' = "inner"
    /\ UNCHANGED <<stage, i, next_id, policies, coverages, claims, claim_txns,
                   premium_txns, quotes>>
    /\ UNCHANGED auxVars

\* Mutant of ClaimTxnAppend: the VOID of a voided payment is appended
\* without a second look at the row target.
ClaimTxnAppendVoidUnguarded ==
    /\ stage = "claim_txns" /\ pc = "inner" /\ j < n
    /\ IF next_id > NUM_CLAIM_TRANSACTIONS
       THEN /\ pc' = "done"
            /\ UNCHANGED <<budget, i, j, next_id, claim_txns>>
       ELSE \E d \in Choices(ClaimTxnDraws, ClaimTxnDefault, budget) :
            /\ ClaimTxnCost(d) <= budget
            /\ budget' = budget - ClaimTxnCost(d)
            /\ claim_txns' =
                IF IsVoided(d)
                THEN claim_txns \o <<ClaimTxnRow(next_id, base, d),
                                     VoidRow(next_id + 1, base, d)>>
                ELSE Append(claim_txns, ClaimTxnRow(next_id, base, d))
            /\ next_id' = IF IsVoided(d) THEN next_id + 2 ELSE next_id + 1
            /\ j' = j + 1
            /\ pc' = IF j + 1 < n THEN "inner" ELSE "outer"
            /\ i' = IF j + 1 < n THEN i ELSE i + 1
    /\ UNCHANGED <<stage, n, base, policies, coverages, claims, premium_txns,
                   quotes>>
    /\ UNCHANGED auxVars

\* Lines 427-491: one iteration of the inner loop: the transaction and, for
\* a voided payment, its VOID. Both appends are guarded by the row target.
ClaimTxnAppend ==
    /\ stage = "claim_txns" /\ pc = "inner" /\ j < n
    /\ IF next_id > NUM_CLAIM_TRANSACTIONS
       THEN /\ pc' = "done"
            /\ UNCHANGED <<budget, i, j, next_id, claim_txns>>
       ELSE \E d \in Choices(ClaimTxnDraws, ClaimTxnDefault, budget) :
            /\ ClaimTxnCost(d) <= budget
            /\ budget' = budget - ClaimTxnCost(d)
            /\ IF ~IsVoided(d)
               THEN /\ claim_txns' =
                        Append(claim_txns, ClaimTxnRow(next_id, base, d))
                    /\ next_id' = next_id + 1
                    /\ j' = j + 1
                    /\ pc' = IF j + 1 < n THEN "inner" ELSE "outer"
                    /\ i' = IF j + 1 < n THEN i ELSE i + 1
               ELSE IF next_id + 1 > NUM_CLAIM_TRANSACTIONS
               THEN /\ claim_txns' =
                        Append(claim_txns, ClaimTxnRow(next_id, base, d))
                    /\ next_id' = next_id + 1
                    /\ pc' = "done"
                    /\ UNCHANGED <<i, j>>
               ELSE /\ claim_txns' =
                        claim_txns \o <<ClaimTxnRow(next_id, base, d),
                                        VoidRow(next_id + 1, base, d)>>
                    /\ next_id' = next_id + 2
                    /\ j' = j + 1
                    /\ pc' = IF j + 1 < n THEN "inner" ELSE "outer"
                    /\ i' = IF j + 1 < n THEN i ELSE i + 1
    /\ UNCHANGED <<stage, n, base, policies, coverages, claims, premium_txns,
                   quotes>>
    /\ UNCHANGED auxVars

\* Line 492
ClaimTxnReturn ==
    /\ stage = "claim_txns" /\ pc = "outer"
    /\ i > Len(get_active_claims(claims))
    /\ pc' = "done"
    /\ UNCHANGED <<stage, budget, i, j, n, base, next_id, policies, coverages,
                   claims, claim_txns, premium_txns, quotes>>
    /\ UNCHANGED auxVars

\* ------------------------------------------------- gen_premium_transactions
\* Line 511: num_txns = random.randint(1, 8)
PremiumBeginDraws == [num_txns |-> 1..8]
PremiumBeginDefault == [num_txns |-> 1]

\* Lines 515-573: the random calls of one inner iteration.
PremiumDraws ==
    [type |-> RandChoice(PREMIUM_TXN_TYPES), txn_date |-> RandDate,
     d_accounting |-> RandInt(0, 30), d_booking |-> RandInt(0, 7),
     d_eff |-> RandInt(0, 90), amount |-> RandAmount(-2000, 15000),
     rev |-> RandBool, d_rev |-> RandInt(1, 45),
     d_rev_accounting |-> RandInt(0, 30), d_rev_booking |-> RandInt(0, 7)]

PremiumDefault ==
    [type |-> PREMIUM_TXN_TYPES[1], txn_date |-> 0, d_accounting |-> 0,
     d_booking |-> 0, d_eff |-> 0, amount |-> -200000, rev |-> FALSE,
     d_rev |-> 1, d_rev_accounting |-> 0, d_rev_booking |-> 0]

\* The number of non-default draws among the calls the code makes: the
\* backdating draw for an ENDORSEMENT only, the reversal's dates only for a
\* reversed transaction.
PremiumCost(d) ==
    Dev(d.type, PREMIUM_TXN_TYPES[1]) + Dev(d.txn_date, 0)
    + Dev(d.d_accounting, 0) + Dev(d.d_booking, 0) + Dev(d.amount, -200000)
    + (IF d.type = "ENDORSEMENT" THEN Dev(d.d_eff, 0) ELSE 0)
    + (IF ~d.rev THEN 0
       ELSE 1 + Dev(d.d_rev, 1) + Dev(d.d_rev_accounting, 0)
            + Dev(d.d_rev_booking, 0))

\* Mutant of PremiumEffDate: every type is backdated.
PremiumEffDateAlwaysBackdated(type, txn_date, days) == txn_date - days
\* Lines 527-529: effective_date of a transaction of type type.
PremiumEffDate(type, txn_date, days) ==
    IF type = "ENDORSEMENT" THEN txn_date - days ELSE txn_date

\* Lines 535-554
PremiumRow(txn_id, pol, d) ==
    LET accounting_date == d.txn_date + d.d_accounting IN
    [transaction_id |-> txn_id,
     policy_id |-> pol.policy_id,
     policy_number |-> pol.policy_number,
     line_of_business |-> pol.line_of_business,
     transaction_type |-> d.type,
     transaction_date |-> d.txn_date,
     accounting_date |-> accounting_date,
     booking_date |-> accounting_date + d.d_booking,
     effective_date |-> PremiumEffDate(d.type, d.txn_date, d.d_eff),
     amount |-> d.amount,
     is_reversal |-> FALSE,
     reversal_of_transaction_id |-> None]

\* Line 575: "amount": -amount
ReversalAmount(amount) == 0 - amount
\* Mutant of ReversalOf: the REVERSAL names its own id.
ReversalOfSelf(txn_id) == txn_id
\* Line 580: "reversal_of_transaction_id": txn_id - 1
ReversalOf(txn_id) == txn_id - 1

\* Lines 561-586
ReversalRow(txn_id, pol, d) ==
    LET rev_date == d.txn_date + d.d_rev
        rev_acct == rev_date + d.d_rev_accounting
    IN [transaction_id |-> txn_id,
        policy_id |-> pol.policy_id,
        policy_number |-> pol.policy_number,
        line_of_business |-> pol.line_of_business,
        transaction_type |-> "REVERSAL",
        transaction_date |-> rev_date,
        accounting_date |-> rev_acct,
        booking_date |-> rev_acct + d.d_rev_booking,
        effective_date |-> PremiumEffDate(d.type, d.txn_date, d.d_eff),
        amount |-> ReversalAmount(d.amount),
        is_reversal |-> TRUE,
        reversal_of_transaction_id |-> Some(ReversalOf(txn_id))]

\* Lines 510-511: the outer loop takes the next current policy.
PremiumBegin ==
    /\ stage = "premium_txns" /\ pc = "outer"
    /\ i <= Len(get_current_policies(policies))
    /\ \E d \in Choices(PremiumBeginDraws, PremiumBeginDefault, budget) :
        /\ Dev(d.num_txns, 1) <= budget
        /\ budget' = budget - Dev(d.num_txns, 1)
        /\ n' = d.num_txns
    /\ base' = get_current_policies(policies)[i]
    /\ j' = 0
    /\ pc' = "inner"
    /\ UNCHANGED <<stage, i, next_id, policies, coverages, claims, claim_txns,
                   premium_txns, quotes>>
    /\ UNCHANGED auxVars

\* Lines 512-587: one iteration of the inner loop: the transaction and, for
\* a reversed one, its REVERSAL. Both appends are guarded by the row target.
PremiumAppend ==
    /\ stage = "premium_txns" /\ pc = "inner" /\ j < n
    /\ IF next_id > NUM_PREMIUM_TRANSACTIONS
       THEN /\ pc' = "done"
            /\ UNCHANGED <<budget, i, j, next_id, premium_txns>>
       ELSE \E d \in Choices(PremiumDraws, PremiumDefault, budget) :
            /\ PremiumCost(d) <= budget
            /\ budget' = budget - PremiumCost(d)
            /\ IF ~d.rev
               THEN /\ premium_txns' =
                        Append(premium_txns, PremiumRow(next_id, base, d))
                    /\ next_id' = next_id + 1
                    /\ j' = j + 1
                    /\ pc' = IF j + 1 < n THEN "inner" ELSE "outer"
                    /\ i' = IF j + 1 < n THEN i ELSE i + 1
               ELSE IF next_id + 1 > NUM_PREMIUM_TRANSACTIONS
               THEN /\ premium_txns' =
                        Append(premium_txns, PremiumRow(next_id, base, d))
                    /\ next_id' = next_id + 1
                    /\ pc' = "done"
                    /\ UNCHANGED <<i, j>>
               ELSE /\ premium_txns' =
                        premium_txns \o <<PremiumRow(next_id, base, d),
                                          ReversalRow(next_id + 1, base, d)>>
                    /\ next_id' = next_id + 2
                    /\ j' = j + 1
                    /\ pc' = IF j + 1 < n THEN "inner" ELSE "outer"
                    /\ i' = IF j + 1 < n THEN i ELSE i + 1
    /\ UNCHANGED <<stage, n, base, policies, coverages, claims, claim_txns,
                   quotes>>
    /\ UNCHANGED auxVars

\* Line 588
PremiumReturn ==
    /\ stage = "premium_txns" /\ pc = "outer"
    /\ i > Len(get_current_policies(policies))
    /\ pc' = "done"
    /\ UNCHANGED <<stage, budget, i, j, n, base, next_id, policies, coverages,
                   claims, claim_txns, premium_txns, quotes>>
    /\ UNCHANGED auxVars

\* --------------------------------------------------------------- gen_quotes
\* Lines 607-613: status and bound_policy_id are separate random calls.
QuoteDraws ==
    [status |-> RandChoice(QUOTE_STATUSES),
     bound_policy_id |-> MaybeNull(RandInt(1, NUM_POLICIES))]
QuoteDefault == [status |-> QUOTE_STATUSES[1], bound_policy_id |-> None]
QuoteCost(d) ==
    Dev(d.status, QUOTE_STATUSES[1]) + Dev(d.bound_policy_id, None)

\* Lines 598-616
QuoteRow(quote_id, d) ==
    [quote_id |-> quote_id,
     status |-> d.status,
     bound_policy_id |-> d.bound_policy_id]

\* Lines 593-616: one iteration of the loop.
QuoteAppend ==
    /\ stage = "quotes" /\ pc = "outer" /\ i <= NUM_QUOTES
    /\ \E d \in Choices(QuoteDraws, QuoteDefault, budget) :
        /\ QuoteCost(d) <= budget
        /\ budget' = budget - QuoteCost(d)
        /\ quotes' = Append(quotes, QuoteRow(i, d))
    /\ i' = i + 1
    /\ UNCHANGED <<stage, pc, j, n, base, next_id, policies, coverages, claims,
                   claim_txns, premium_txns>>
    /\ UNCHANGED auxVars

\* Line 617
QuotesReturn ==
    /\ stage = "quotes" /\ pc = "outer" /\ i > NUM_QUOTES
    /\ pc' = "done"
    /\ UNCHANGED <<stage, budget, i, j, n, base, next_id, policies, coverages,
                   claims, claim_txns, premium_txns, quotes>>
    /\ UNCHANGED auxVars

\* ------------------------------------------------------ evals/run_eval.py
\* Numbers are held in thousandths (0.65 is 650); text is a sequence of
\* one-character strings.
\* Line 103: question.get("tolerance", 0.05)
DEFAULT_TOLERANCE == 50
\* Line 72: passed = abs_err < 0.01
ZERO_EXPECTED_ABS_ERROR == 10

Abs(x) == IF x < 0 THEN 0 - x ELSE x

DIGITS == <<"0", "1", "2", "3", "4", "5", "6", "7", "8", "9">>
LOWER == <<"a", "e", "h", "n", "o">>
UPPER == <<"A", "E", "H", "N", "O">>

IsDigit(c) == c \in Range(DIGITS)
DigitVal(c) == CHOOSE d \in 0..9 : DIGITS[d + 1] = c
AllDigits(s) == \A k \in 1..Len(s) : IsDigit(s[k])

\* A Python value: None, a float, a str, or (in a mapping) no entry.
Absent == [t |-> "absent", n |-> 0, s |-> <<>>]
PyNone == [t |-> "none", n |-> 0, s |-> <<>>]
Num(x) == [t |-> "num", n |-> x, s |-> <<>>]
Str(s) == [t |-> "str", n |-> 0, s |-> s]

\* str.upper()
StrUpper(s) ==
    [k \in 1..Len(s) |->
        IF \E l \in 1..Len(LOWER) : LOWER[l] = s[k]
        THEN UPPER[CHOOSE l \in 1..Len(LOWER) : LOWER[l] = s[k]]
        ELSE s[k]]

\* str.strip()
RECURSIVE StrStrip(_)
StrStrip(s) ==
    IF s = <<>> THEN s
    ELSE IF Head(s) = " " THEN StrStrip(Tail(s))
    ELSE IF s[Len(s)] = " " THEN StrStrip(SubSeq(s, 1, Len(s) - 1))
    ELSE s

\* The value of a run of decimal digits.
RECURSIVE DigitsValue(_)
DigitsValue(s) ==
    IF s = <<>> THEN 0
    ELSE DigitsValue(SubSeq(s, 1, Len(s) - 1)) * 10 + DigitVal(s[Len(s)])

\* The thousandths a run of fraction digits stands for.
FracValue(s) ==
    LET d(k) == IF k <= Len(s) THEN DigitVal(s[k]) ELSE 0
    IN d(1) * 100 + d(2) * 10 + d(3)

\* float(text) for the texts of the form [-]digits[.digits] and
\* [-].digits, with surrounding blanks; ok = FALSE is a ValueError.
ParseFloat(text) ==
    LET t == StrStrip(text)
        neg == t # <<>> /\ Head(t) = "-"
        u == IF neg THEN Tail(t) ELSE t
        dots == {k \in 1..Len(u) : u[k] = "."}
        p == IF dots = {} THEN Len(u) + 1
             ELSE CHOOSE k \in dots : \A m \in dots : k <= m
        ip == SubSeq(u, 1, p - 1)
        fp == SubSeq(u, p + 1, Len(u))
        ok == AllDigits(ip) /\ AllDigits(fp) /\ (ip # <<>> \/ fp # <<>>)
        v == IF ok THEN DigitsValue(ip) * 1000 + FracValue(fp) ELSE 0
    IN [ok |-> ok, v |-> IF neg THEN 0 - v ELSE v]

\* float(x): exc is "" or the exception raised.
Float(x) ==
    IF x.t = "num" THEN [exc |-> "", v |-> x.n]
    ELSE IF x.t = "str"
    THEN IF ParseFloat(x.s).ok THEN [exc |-> "", v |-> ParseFloat(x.s).v]
         ELSE [exc |-> "ValueError", v |-> 0]
    ELSE [exc |-> "TypeError", v |-> 0]

\* The decimal digits of a natural number.
RECURSIVE NatChars(_)
NatChars(k) ==
    IF k < 10 THEN <<DIGITS[k + 1]>>
    ELSE Append(NatChars(k \div 10), DIGITS[(k % 10) + 1])

\* The fraction digits of f thousandths as repr(float) prints them.
FracChars(f) ==
    LET d3 == <<DIGITS[(f \div 100) + 1], DIGITS[((f \div 10) % 10) + 1],
                DIGITS[(f % 10) + 1]>>
    IN IF f % 100 = 0 THEN SubSeq(d3, 1, 1)
       ELSE IF f % 10 = 0 THEN SubSeq(d3, 1, 2)
       ELSE d3

\* str(x)
PyStr(x) ==
    IF x.t = "str" THEN x.s
    ELSE IF x.t = "num"
    THEN (IF x.n < 0 THEN <<"-">> ELSE <<>>)
         \o NatChars(Abs(x.n) \div 1000) \o <<".">>
         \o FracChars(Abs(x.n) % 1000)
    ELSE <<"N", "o", "n", "e">>

\* Mutant of compare_numeric: the relative error must be below the tolerance.
compare_numeric_strict(actual, expected, tolerance) ==
    IF expected = 0
    THEN [passed |-> Abs(actual) < ZERO_EXPECTED_ABS_ERROR,
          rel_error |-> None]
    ELSE [passed |-> Abs(actual - expected) * 1000
                        < tolerance * Abs(expected),
          rel_error |-> Some(<<Abs(actual - expected), Abs(expected)>>)]

\* Mutant of compare_numeric: an expected value of 0 is compared within the
\* tolerance as an absolute error.
compare_numeric_zero_within(actual, expected, tolerance) ==
    IF expected = 0
    THEN [passed |-> Abs(actual) <= tolerance, rel_error |-> None]
    ELSE [passed |-> Abs(actual - expected) * 1000
                        <= tolerance * Abs(expected),
          rel_error |-> Some(<<Abs(actual - expected), Abs(expected)>>)]

\* Lines 68-79: rel_err <= tolerance, with both sides multiplied by
\* abs(expected) and by 1000.
compare_numeric(actual, expected, tolerance) ==
    IF expected = 0
    THEN [passed |-> Abs(actual) < ZERO_EXPECTED_ABS_ERROR,
          rel_error |-> None]
    ELSE [passed |-> Abs(actual - expected) * 1000
                        <= tolerance * Abs(expected),
          rel_error |-> Some(<<Abs(actual - expected), Abs(expected)>>)]

\* Line 85: the text without ',', '$' and '%'.
Cleaned(text) == SelectSeq(text, LAMBDA c : c \notin {",", "$", "%"})

\* The end of the run of digits of s that starts at p (p - 1: no digit).
RECURSIVE DigitRunEnd(_, _)
DigitRunEnd(s, p) ==
    IF p <= Len(s) /\ IsDigit(s[p]) THEN DigitRunEnd(s, p + 1) ELSE p - 1

\* Line 87: the leftmost match of -?\d+\.?\d* in s, None without one.
FirstNumber(s) ==
    LET starts == {p \in 1..Len(s) :
                     \/ IsDigit(s[p])
                     \/ s[p] = "-" /\ p < Len(s) /\ IsDigit(s[p + 1])}
    IN IF starts = {} THEN None
       ELSE LET p == CHOOSE k \in starts : \A m \in starts : k <= m
                d == IF s[p] = "-" THEN p + 1 ELSE p
                e == DigitRunEnd(s, d)
                f == IF e < Len(s) /\ s[e + 1] = "."
                     THEN DigitRunEnd(s, e + 2) ELSE e
            IN Some(SubSeq(s, p, f))

\* Lines 82-90
extract_number(text) ==
    LET matches == FirstNumber(Cleaned(text))
    IN IF matches # None THEN Some(ParseFloat(matches[1]).v) ELSE None

\* The keys of the keyed expected_values and numeric_result mappings.
KEYS == <<"loss_ratio", "lob">>

\* Mutant of IsQualitative: no tolerance marks a question qualitative.
NeverQualitative(tolerance) == FALSE
\* Line 106: tolerance == "qualitative"
IsQualitative(tolerance) == tolerance.kind = "qualitative"

\* Line 103
Tolerance(question) ==
    IF question.tolerance.kind = "absent"
    THEN [kind |-> "fraction", n |-> DEFAULT_TOLERANCE]
    ELSE question.tolerance

\* Mutant of TolFloat: "exact" is given the default tolerance.
TolFloatExactAsDefault(tolerance) ==
    IF tolerance.kind = "qualitative" THEN [exc |-> "ValueError", v |-> 0]
    ELSE IF tolerance.kind = "exact" THEN [exc |-> "", v |-> DEFAULT_TOLERANCE]
    ELSE [exc |-> "", v |-> tolerance.n]
\* Lines 138, 149, 174: float(tolerance) if tolerance != "exact" else 0.0
TolFloat(tolerance) ==
    IF tolerance.kind = "exact" THEN [exc |-> "", v |-> 0]
    ELSE IF tolerance.kind = "fraction" THEN [exc |-> "", v |-> tolerance.n]
    ELSE [exc |-> "ValueError", v |-> 0]

\* No key has a comparison.
NoComparisons == [k \in Range(KEYS) |-> "none"]

\* What score_question returns: passed is None, Some(TRUE) or Some(FALSE);
\* rule tells the fields a comparison added: "single" those of
\* compare_numeric, "keyed" the comparisons, "regex" those of
\* compare_numeric and extraction_method.
Score(question, passed, reason, rule, comparisons) ==
    [id |-> question.id, passed |-> passed, reason |-> reason, rule |-> rule,
     comparisons |-> comparisons]

\* A call that returned the score sc, and one that raised exc.
Returned(sc) == [exc |-> "", score |-> sc]
Raised(exc) == [exc |-> exc, score |-> None]

\* Lines 107-114
QualitativeScore(question) ==
    Score(question, None, "qualitative - manual review required", "",
          NoComparisons)
\* Lines 118-122
NoGoldScore(question) ==
    Score(question, None, "no gold query defined", "", NoComparisons)

\* Lines 137-141 and 173-178: the comparison of actual (a float() outcome)
\* with expected_value.
SingleComparison(question, tolerance, actual, rule) ==
    LET expected == Float(question.expected_value)
        tol == TolFloat(tolerance)
    IN IF expected.exc # "" THEN Raised(expected.exc)
       ELSE IF tol.exc # "" THEN Raised(tol.exc)
       ELSE IF actual.exc # "" THEN Raised(actual.exc)
       ELSE Returned(Score(question,
                Some(compare_numeric(actual.v, expected.v, tol.v).passed),
                "", rule, NoComparisons))

\* Line 139: float(numeric)
FloatOfNumeric(numeric) ==
    IF numeric.kind = "dict" THEN [exc |-> "TypeError", v |-> 0]
    ELSE Float(numeric.scalar)

\* Mutant of KeyComparison: a key the agent left out is skipped.
KeyComparisonSkipsMissing(actual, expected_val, tol) ==
    IF actual.t = "absent" THEN "none"
    ELSE IF Float(actual).exc = "" /\ Float(expected_val).exc = ""
    THEN IF compare_numeric(Float(actual).v, Float(expected_val).v,
                            tol).passed
         THEN "pass" ELSE "fail"
    ELSE IF StrUpper(StrStrip(PyStr(actual)))
            = StrUpper(StrStrip(PyStr(expected_val)))
    THEN "pass" ELSE "fail"
\* Lines 148-163: the comparison of one expected key; actual is Absent
\* when the key is not in numeric.
KeyComparison(actual, expected_val, tol) ==
    IF actual.t = "absent" THEN "missing"
    ELSE IF Float(actual).exc = "" /\ Float(expected_val).exc = ""
    THEN IF compare_numeric(Float(actual).v, Float(expected_val).v,
                            tol).passed
         THEN "pass" ELSE "fail"
    ELSE IF StrUpper(StrStrip(PyStr(actual)))
            = StrUpper(StrStrip(PyStr(expected_val)))
    THEN "pass" ELSE "fail"

\* Lines 145-166
KeyedComparison(question, tolerance, numeric) ==
    LET expected == question.expected_values[1]
        tol == TolFloat(tolerance)
        compared == {k \in Range(KEYS) : expected[k].t # "absent"
                                         /\ numeric.keyed[k].t # "absent"}
        comparisons ==
            [k \in Range(KEYS) |->
                IF expected[k].t = "absent" THEN "none"
                ELSE KeyComparison(numeric.keyed[k], expected[k], tol.v)]
        all_passed == \A k \in Range(KEYS) :
                          comparisons[k] \in {"none", "pass"}
    IN IF compared # {} /\ tol.exc # "" THEN Raised(tol.exc)
       ELSE Returned(Score(question, Some(all_passed), "", "keyed",
                           comparisons))

\* Mutant of CouldNotCompareScore: the question is failed.
CouldNotCompareFails(question) ==
    Score(question, Some(FALSE),
          "could not compare - no numeric result from agent", "",
          NoComparisons)
\* Lines 180-182
CouldNotCompareScore(question) ==
    Score(question, None,
          "could not compare - no numeric result from agent", "",
          NoComparisons)

\* Mutant of Compare: the number in the response text is tried before the
\* numeric_result.
CompareResponseFirst(question, answer) ==
    LET tolerance == Tolerance(question)
        numeric == answer.numeric_result
    IN IF question.expected_value.t # "absent"
          /\ extract_number(answer.response) # None
       THEN SingleComparison(question, tolerance,
                [exc |-> "", v |-> extract_number(answer.response)[1]],
                "regex")
       ELSE IF question.expected_value.t # "absent" /\ numeric.kind # "none"
       THEN SingleComparison(question, tolerance, FloatOfNumeric(numeric),
                             "single")
       ELSE IF question.expected_values # None /\ numeric.kind = "dict"
       THEN KeyedComparison(question, tolerance, numeric)
       ELSE Returned(CouldNotCompareScore(question))
\* Lines 124-182: score_question once get_gold_answer has returned rows.
Compare(question, answer) ==
    LET tolerance == Tolerance(question)
        numeric == answer.numeric_result
    IN IF question.expected_value.t # "absent" /\ numeric.kind # "none"
       THEN SingleComparison(question, tolerance, FloatOfNumeric(numeric),
                             "single")
       ELSE IF question.expected_values # None /\ numeric.kind = "dict"
       THEN KeyedComparison(question, tolerance, numeric)
       ELSE IF question.expected_value.t # "absent"
               /\ extract_number(answer.response) # None
       THEN SingleComparison(question, tolerance,
                [exc |-> "", v |-> extract_number(answer.response)[1]],
                "regex")
       ELSE Returned(CouldNotCompareScore(question))

\* Lines 45-61: gold is what the question's gold_query does: "absent" (no
\* gold_query), "empty" (no rows), "raises" (connect or execute raises: the
\* finally clause closes the connection and the exception goes on),
\* "rows".
get_gold_answer(question) ==
    IF question.gold \in {"absent", "empty"} THEN [exc |-> "", gold |-> None]
    ELSE IF question.gold = "raises"
    THEN [exc |-> "duckdb.Error", gold |-> None]
    ELSE [exc |-> "", gold |-> Some("rows")]

\* The tolerance field of a question: no field, the two literals, 0.05.
Tolerances ==
    {[kind |-> k, n |-> 0] : k \in {"absent", "qualitative", "exact"}}
    \cup {[kind |-> "fraction", n |-> DEFAULT_TOLERANCE]}

\* The mapping with these values for the two keys.
Keyed(loss_ratio, lob) ==
    [k \in Range(KEYS) |-> IF k = KEYS[1] THEN loss_ratio ELSE lob]

\* A question defines expected_value, or expected_values, or neither.
ExpectedShapes ==
    {[v |-> Absent, vs |-> None]}
    \cup {[v |-> Num(x), vs |-> None] : x \in {0, 650}}
    \cup {[v |-> Absent, vs |-> Some(Keyed(Num(550), l))] :
             l \in {Absent, Str(<<"H", "O">>)}}

\* Lines 218-248: the questions load_questions can return at position id.
Questions(id) ==
    {[id |-> id, tolerance |-> t, gold |-> g, expected_value |-> e.v,
      expected_values |-> e.vs] :
        t \in Tolerances, g \in {"absent", "empty", "raises", "rows"},
        e \in ExpectedShapes}

\* numeric_result: None, a float or a str, or a mapping.
NumericResults ==
    {[kind |-> "none", scalar |-> PyNone, keyed |-> Keyed(Absent, Absent)]}
    \cup {[kind |-> "scalar", scalar |-> x, keyed |-> Keyed(Absent, Absent)] :
             x \in {Num(0), Num(5), Num(640), Num(800), Str(<<"h", "o">>)}}
    \cup {[kind |-> "dict", scalar |-> PyNone, keyed |-> Keyed(lr, lob)] :
             lr \in {Absent, Num(551), Num(800), Str(<<"h", "o">>)},
             lob \in {Absent, Str(<<"h", "o">>), Str(<<" ", "H", "O", " ">>),
                      Str(<<"a">>), Num(5)}}

\* Lines 189-211: what call_agent can return once an agent is plugged in;
\* the stub's answer is the one with no digit, no SQL and no numeric_result.
AgentAnswers ==
    {[response |-> r, sql_used |-> s, numeric_result |-> x] :
        r \in {<<"n", "o">>, <<"0", ".", "6", "4">>,
               <<"$", "1", ",", "5", " ", "h">>},
        s \in {None, Some("SELECT")},
        x \in NumericResults}

\* What the scorecard reads of a score (lines 271-306).
ResultOf(sc) == [id |-> sc.id, passed |-> sc.passed]

\* Lines 273-276: the counts print_scorecard reports for the results rs.
Scorecard(rs) ==
    [total |-> Len(rs),
     passed |-> Cardinality({k \in 1..Len(rs) : rs[k].passed = Some(TRUE)}),
     failed |-> Cardinality({k \in 1..Len(rs) : rs[k].passed = Some(FALSE)}),
     manual |-> Cardinality({k \in 1..Len(rs) : rs[k].passed = None})]

\* Lines 254-258: the loop takes the next question and calls the agent.
EvalCallAgent ==
    /\ stage = "eval" /\ pc = "outer" /\ i <= n
    /\ \E question \in Questions(i), answer \in AgentAnswers :
        /\ q' = question
        /\ agent_answer' = answer
    /\ agent_calls' = Append(agent_calls, i)
    /\ gold_ran' = FALSE
    /\ pc' = "score"
    /\ UNCHANGED <<stage, budget, i, j, n, base, next_id, policies, coverages,
                   claims, claim_txns, premium_txns, quotes>>
    /\ UNCHANGED <<score, results, error>>
    /\ UNCHANGED <<goldVars, cmpVars, gwVars>>

\* Lines 102-114: score_question returns for a qualitative question.
ScoreQualitative ==
    /\ stage = "eval" /\ pc = "score" /\ IsQualitative(Tolerance(q))
    /\ score' = QualitativeScore(q)
    /\ pc' = "scored"
    /\ UNCHANGED <<stage, budget, i, j, n, base, next_id, policies, coverages,
                   claims, claim_txns, premium_txns, quotes>>
    /\ UNCHANGED <<q, agent_answer, agent_calls, results, gold_ran, error>>
    /\ UNCHANGED <<goldVars, cmpVars, gwVars>>

\* Lines 116-122: get_gold_answer is called; without a gold answer
\* score_question returns, an exception leaves score_question and run_eval.
ScoreGold ==
    /\ stage = "eval" /\ pc = "score" /\ ~IsQualitative(Tolerance(q))
    /\ gold_ran' = TRUE
    /\ \E r \in {get_gold_answer(q)} :
        IF r.exc # ""
        THEN /\ error' = r.exc
             /\ pc' = "raised"
             /\ UNCHANGED score
        ELSE IF r.gold = None
        THEN /\ score' = NoGoldScore(q)
             /\ pc' = "scored"
             /\ UNCHANGED error
        ELSE /\ pc' = "compare"
             /\ UNCHANGED <<score, error>>
    /\ UNCHANGED <<stage, budget, i, j, n, base, next_id, policies, coverages,
                   claims, claim_txns, premium_txns, quotes>>
    /\ UNCHANGED <<q, agent_answer, agent_calls, results>>
    /\ UNCHANGED <<goldVars, cmpVars, gwVars>>

\* Lines 124-182: the comparison rules; an exception leaves score_question
\* and run_eval.
ScoreCompare ==
    /\ stage = "eval" /\ pc = "compare"
    /\ \E r \in {Compare(q, agent_answer)} :
        IF r.exc # ""
        THEN /\ error' = r.exc
             /\ pc' = "raised"
             /\ UNCHANGED score
        ELSE /\ score' = r.score
             /\ pc' = "scored"
             /\ UNCHANGED error
    /\ UNCHANGED <<stage, budget, i, j, n, base, next_id, policies, coverages,
                   claims, claim_txns, premium_txns, quotes>>
    /\ UNCHANGED <<q, agent_answer, agent_calls, results, gold_ran>>
    /\ UNCHANGED <<goldVars, cmpVars, gwVars>>

\* Mutant of EvalAppend: a score that needs manual review is not appended.
EvalAppendDropsManual ==
    /\ stage = "eval" /\ pc = "scored"
    /\ results' = IF score.passed = None THEN results
                  ELSE Append(results, ResultOf(score))
    /\ i' = i + 1
    /\ q' = None /\ agent_answer' = None /\ score' = None
    /\ pc' = "outer"
    /\ UNCHANGED <<stage, budget, j, n, base, next_id, policies, coverages,
                   claims, claim_txns, premium_txns, quotes>>
    /\ UNCHANGED <<agent_calls, gold_ran, error>>
    /\ UNCHANGED <<goldVars, cmpVars, gwVars>>
\* Lines 260-266: the score is appended and the iteration ends; its locals
\* q, agent_answer and score are bound anew by the next iteration.
EvalAppend ==
    /\ stage = "eval" /\ pc = "scored"
    /\ results' = Append(results, ResultOf(score))
    /\ i' = i + 1
    /\ q' = None /\ agent_answer' = None /\ score' = None
    /\ pc' = "outer"
    /\ UNCHANGED <<stage, budget, j, n, base, next_id, policies, coverages,
                   claims, claim_txns, premium_txns, quotes>>
    /\ UNCHANGED <<agent_calls, gold_ran, error>>
    /\ UNCHANGED <<goldVars, cmpVars, gwVars>>

\* Line 268
EvalReturn ==
    /\ stage = "eval" /\ pc = "outer" /\ i > n
    /\ pc' = "done"
    /\ UNCHANGED <<stage, budget, i, j, n, base, next_id, policies, coverages,
                   claims, claim_txns, premium_txns, quotes>>
    /\ UNCHANGED evalVars
    /\ UNCHANGED <<goldVars, cmpVars, gwVars>>

\* ---------------------------------------------------- compute_gold_metrics
\* Money is held in cents, exposure in hundredths of a unit, a value rounded
\* to six places as [int, frac]: int + frac / MICRO with 0 <= frac < MICRO.
MICRO == 1000000

Min(a, b) == IF a <= b THEN a ELSE b

\* First days of 2020 .. 2025, counted from 2020-01-01.
YearStart == <<0, 366, 731, 1096, 1461, 1827>>
\* Lines 948, 1073: int(date[:4]) of the ISO text of a day.
Year(day) == 2019 + Cardinality({k \in 1..Len(YearStart) : YearStart[k] <= day})

RECURSIVE Pow10(_)
Pow10(k) == IF k = 0 THEN 1 ELSE 10 * Pow10(k - 1)

\* The first k decimal digits of rem / den, 0 <= rem < den, and what is left.
RECURSIVE FracDigits(_, _, _)
FracDigits(rem, den, k) ==
    IF k = 0 THEN [val |-> 0, rem |-> rem]
    ELSE LET p == FracDigits(rem, den, k - 1) IN
         [val |-> p.val * 10 + (p.rem * 10) \div den,
          rem |-> (p.rem * 10) % den]

\* |num| / den to k places, ties to the even digit: [int, frac], frac in
\* units of 10^-k.  den > 0.
Quotient(num, den, k) ==
    LET a == Abs(num)
        whole == a \div den
        fd == FracDigits(a % den, den, k)
        last == IF k = 0 THEN whole ELSE fd.val
        up == \/ 2 * fd.rem > den
              \/ 2 * fd.rem = den /\ last % 2 = 1
        frac == IF up THEN fd.val + 1 ELSE fd.val
    IN IF k = 0 THEN [int |-> IF up THEN whole + 1 ELSE whole, frac |-> 0]
       ELSE IF frac = Pow10(k) THEN [int |-> whole + 1, frac |-> 0]
       ELSE [int |-> whole, frac |-> frac]

DecNeg(d) ==
    IF d.frac = 0 THEN [int |-> 0 - d.int, frac |-> 0]
    ELSE [int |-> 0 - d.int - 1, frac |-> MICRO - d.frac]

DecAdd(a, b) ==
    [int |-> a.int + b.int + (a.frac + b.frac) \div MICRO,
     frac |-> (a.frac + b.frac) % MICRO]

\* round(num / den, 6), num and den in the same unit, den > 0.
Round6(num, den) ==
    LET m == Quotient(num, den, 6) IN IF num < 0 THEN DecNeg(m) ELSE m

\* round(num / den, 2) in hundredths, for num in whole units of the result
\* and den in hundredths (k = 2), or both in the unit of the result (k = 0).
RoundUnits(num, den, k) ==
    LET m == Quotient(num, den, k)
        v == m.int * Pow10(k) + m.frac
    IN IF num < 0 THEN 0 - v ELSE v

\* Mutant of Floor1: only a denominator of zero is floored, a negative one
\* is taken by its absolute value.
Floor1OfZeroOnly(x) == IF x = 0 THEN 100 ELSE Abs(x)
\* max(x, 1) for x in cents or hundredths.
Floor1(x) == Max(x, 100)

\* The rows of the generators above carry the fields their properties read;
\* compute_gold_metrics reads eight more, which its input lists carry as
\* the generators draw them.
\* Lines 208-209, 232-233: premium and exposure of a policy, the factors
\* of a later version in percent.
PolicyAmountDraws ==
    [premium |-> RandAmount(200, 25000), exposure |-> RandInt(100, 10000),
     pf |-> RandInt(85, 125), ef |-> RandInt(90, 110)]
PolicyAmountDefault ==
    [premium |-> 20000, exposure |-> 100, pf |-> 85, ef |-> 90]

\* Lines 224-233, 270: total_premium of version v (0-based).
TotalPremium(v, a) ==
    IF v = 0 THEN a.premium ELSE RoundUnits(a.premium * a.pf, 100, 0)
\* Lines 224-233, 271: total_exposure_units of version v (0-based).
TotalExposure(v, a) ==
    IF v = 0 THEN a.exposure ELSE RoundUnits(a.exposure * a.ef, 100, 0)

\* Lines 250-287: the policy rows with both totals; amounts[pid] are the
\* draws of policy pid.
WithPolicyAmounts(pols, amounts) ==
    [k \in 1..Len(pols) |->
        LET a == amounts[pols[k].policy_id]
            v == pols[k].version_number - 1
        IN pols[k]
           @@ [total_premium |-> TotalPremium(v, a),
               total_exposure_units |-> TotalExposure(v, a)]]

\* Lines 383-386: the other amounts of a claim.
ClaimAmountDraws ==
    [paid_alae |-> RandAmount(0, 30000), paid_ulae |-> RandAmount(0, 10000),
     salvage |-> RandAmount(0, 5000), subrogation |-> RandAmount(0, 10000)]
ClaimAmountDefault ==
    [paid_alae |-> 1500000, paid_ulae |-> 0, salvage |-> 0, subrogation |-> 0]

\* Lines 361-395: the claim rows with these amounts; amounts[c] are the
\* draws of claim c.
WithClaimAmounts(cls, amounts) ==
    [k \in 1..Len(cls) |->
        LET a == amounts[cls[k].claim_id] IN
        cls[k] @@ [paid_alae_amount |-> a.paid_alae,
                   paid_ulae_amount |-> a.paid_ulae,
                   salvage_amount |-> a.salvage,
                   subrogation_amount |-> a.subrogation]]

\* Lines 596-597, 606: line of business, date and premium of a quote.
QuoteAmountDraws ==
    [lob |-> RandChoice(LOB_CODES), quote_date |-> RandDate,
     quoted_premium |-> RandAmount(200, 25000)]
QuoteAmountDefault ==
    [lob |-> LOB_CODES[1], quote_date |-> 0, quoted_premium |-> 20000]

\* Lines 591-617: the list gen_quotes returns for quotes 1..k when draws[c]
\* and amounts[c] are the draws of quote c.
RECURSIVE GenQuotes(_, _, _)
GenQuotes(draws, amounts, k) ==
    IF k = 0 THEN <<>>
    ELSE Append(GenQuotes(draws, amounts, k - 1),
                QuoteRow(k, draws[k])
                @@ [line_of_business |-> amounts[k].lob,
                    quote_date |-> amounts[k].quote_date,
                    quoted_premium |-> amounts[k].quoted_premium])

\* Lines 512-587: the rows of the first t inner iterations for the policy
\* row pol, without the row target; ds[c] are the draws of iteration c.
RECURSIVE PremiumTxnsOf(_, _, _, _)
PremiumTxnsOf(pol, first_id, ds, t) ==
    IF t = 0 THEN <<>>
    ELSE LET prev == PremiumTxnsOf(pol, first_id, ds, t - 1)
             id == first_id + Len(prev)
         IN prev \o <<PremiumRow(id, pol, ds[t])>>
                 \o (IF ds[t].rev THEN <<ReversalRow(id + 1, pol, ds[t])>>
                     ELSE <<>>)

\* Lines 510-587: the rows for the first k current policies, without the
\* row target; Len(draws[c]) is num_txns of the c-th current policy.
RECURSIVE AllPremiumTxns(_, _, _)
AllPremiumTxns(current, draws, k) ==
    IF k = 0 THEN <<>>
    ELSE LET prev == AllPremiumTxns(current, draws, k - 1) IN
         prev \o PremiumTxnsOf(current[k], Len(prev) + 1, draws[k],
                               Len(draws[k]))

\* Lines 508-588: the list gen_premium_transactions returns; both appends
\* return at the row target, so the list is cut there.
GenPremiumTxns(pols, draws) ==
    LET current == get_current_policies(pols)
        all == AllPremiumTxns(current, draws, Len(current))
    IN SubSeq(all, 1, Min(Len(all), NUM_PREMIUM_TRANSACTIONS))

RECURSIVE SumSeq(_)
SumSeq(s) == IF s = <<>> THEN 0 ELSE s[1] + SumSeq(Tail(s))

\* Mutant of ClaimsByPolicy: the soft-deleted claims are indexed too.
ClaimsByPolicyWithDeleted(cls, pid) ==
    SelectSeq(cls, LAMBDA c : c.policy_id = pid)
\* Lines 930-933: claims_by_policy.get(pid, [])
ClaimsByPolicy(cls, pid) ==
    SelectSeq(get_active_claims(cls), LAMBDA c : c.policy_id = pid)

\* Line 936
ActivePrem(txns) == SelectSeq(txns, LAMBDA p : ~p.is_reversal)

\* Lines 937-943: prem_written_by_policy / prem_earned_by_policy .get(pid, [])
PremByPolicy(txns, type, pid) ==
    SelectSeq(ActivePrem(txns),
              LAMBDA p : p.transaction_type = type /\ p.policy_id = pid)

\* Lines 978-979, 984-985: sum(p["amount"] for p in ...)
SumAmount(txns) == SumSeq([k \in 1..Len(txns) |-> txns[k].amount])

\* Lines 978-981
WrittenPremium(txns, pol) ==
    LET wp == SumAmount(PremByPolicy(txns, "WRITTEN", pol.policy_id)) IN
    IF wp = 0 THEN pol.total_premium ELSE wp

\* Lines 986-987: random.uniform(0.7, 1.0) in percent.
EarnedFactorDraws == {70, 100}
\* Line 987: wp * f. Every total_premium and every amount drawn above is
\* a whole number of units, so the product is a whole number of cents.
EarnedFallback(wp, f) == RoundUnits(wp * f, 100, 0)

\* Lines 993-994
IsOpenClaim(c) ==
    c.claim_status \in {"OPEN", "REOPENED", "LITIGATION", "SUBROGATION"}

\* Lines 952-971
NewGroup(lob, year) ==
    [line_of_business |-> lob, policy_year |-> year, policy_count |-> 0,
     total_exposure_units |-> 0, written_premium |-> 0,
     earned_premium |-> 0, claim_count |-> 0, open_claim_count |-> 0,
     closed_claim_count |-> 0, paid_loss |-> 0, paid_alae |-> 0,
     paid_ulae |-> 0, total_lae |-> 0, salvage |-> 0, subrogation |-> 0,
     net_incurred_loss |-> 0, total_incurred |-> 0]

\* Lines 951, 973: where the group of key (lob, year) is, 0 if it is not.
GroupIndex(groups, lob, year) ==
    LET hits == {k \in 1..Len(groups) :
                    /\ groups[k].line_of_business = lob
                    /\ groups[k].policy_year = year}
    IN IF hits = {} THEN 0 ELSE CHOOSE k \in hits : TRUE

\* Lines 947-1002: lob_year after the iteration for the policy row pol
\* with written premium wp, earned premium ep and claims pol_claims.
AddPolicy(groups, pol, wp, ep, pol_claims) ==
    LET year == Year(pol.effective_date)
        lob == pol.line_of_business
        k == GroupIndex(groups, lob, year)
        gs == IF k = 0 THEN Append(groups, NewGroup(lob, year)) ELSE groups
        x == IF k = 0 THEN Len(gs) ELSE k
        open == Len(SelectSeq(pol_claims, IsOpenClaim))
        Field(f) == SumSeq([c \in 1..Len(pol_claims) |-> pol_claims[c][f]])
    IN [gs EXCEPT ![x] =
        [gs[x] EXCEPT
            !.policy_count = @ + 1,
            !.total_exposure_units = @ + pol.total_exposure_units,
            !.written_premium = @ + wp,
            !.earned_premium = @ + ep,
            !.claim_count = @ + Len(pol_claims),
            !.open_claim_count = @ + open,
            !.closed_claim_count = @ + Len(pol_claims) - open,
            !.paid_loss = @ + Field("paid_loss_amount"),
            !.paid_alae = @ + Field("paid_alae_amount"),
            !.paid_ulae = @ + Field("paid_ulae_amount"),
            !.salvage = @ + Field("salvage_amount"),
            !.subrogation = @ + Field("subrogation_amount")]]

\* Lines 1005-1033: the finished row of the group m.
GroupRow(m) ==
    LET total_lae == m.paid_alae + m.paid_ulae
        net_incurred_loss == m.paid_loss - m.salvage - m.subrogation
        wp == m.written_premium
        ep == m.earned_premium
        exposure == m.total_exposure_units
        cnt == m.claim_count
        pol_cnt == m.policy_count
    IN [m EXCEPT
           !.total_lae = total_lae,
           !.net_incurred_loss = net_incurred_loss,
           !.total_incurred = m.paid_loss + m.paid_alae + m.paid_ulae
                              - m.salvage - m.subrogation]
       @@ [frequency |-> Round6(cnt * 100, Floor1(exposure)),
           severity |-> RoundUnits(net_incurred_loss, Max(cnt, 1), 0),
           pure_premium |->
               RoundUnits(net_incurred_loss, Floor1(exposure), 2),
           average_premium |-> RoundUnits(wp, Max(pol_cnt, 1), 0),
           loss_ratio |-> Round6(net_incurred_loss, Floor1(ep)),
           lae_ratio |-> Round6(total_lae, Floor1(ep)),
           combined_loss_lae_ratio |->
               Round6(net_incurred_loss + total_lae, Floor1(ep))]

\* Line 1039: round(random.uniform(0.25, 0.40), 6) in percent.
ExpenseRatioDraws == {25, 40}

\* Lines 1039-1067: the underwriting row of the group row m when the
\* expense ratio drawn is e percent.
UwRow(m, e) ==
    LET uw_expense_ratio == [int |-> 0, frac |-> e * (MICRO \div 100)]
        uw_expense == RoundUnits(m.written_premium * e, 100, 0)
        operating_expense == uw_expense + m.total_lae
        uw_profit == m.earned_premium - m.net_incurred_loss - m.total_lae
                     - uw_expense
    IN [line_of_business |-> m.line_of_business,
        policy_year |-> m.policy_year,
        written_premium |-> m.written_premium,
        earned_premium |-> m.earned_premium,
        net_incurred_loss |-> m.net_incurred_loss,
        total_lae |-> m.total_lae,
        underwriting_expense |-> uw_expense,
        underwriting_expense_ratio |-> uw_expense_ratio,
        operating_expense |-> operating_expense,
        operating_expense_ratio |->
            Round6(operating_expense, Floor1(m.earned_premium)),
        loss_ratio |-> m.loss_ratio,
        lae_ratio |-> m.lae_ratio,
        combined_ratio |->
            DecAdd(DecAdd(m.loss_ratio, m.lae_ratio), uw_expense_ratio),
        underwriting_profit |-> uw_profit,
        underwriting_profit_ratio |->
            Round6(uw_profit, Floor1(m.earned_premium))]

\* Lines 1076-1085
NewQuoteGroup(lob, year) ==
    [line_of_business |-> lob, quote_year |-> year, total_quotes |-> 0,
     bound_quotes |-> 0, declined_quotes |-> 0, expired_quotes |-> 0,
     lost_quotes |-> 0, total_quoted_premium |-> 0,
     bound_quoted_premium |-> 0]

QuoteGroupIndex(groups, lob, year) ==
    LET hits == {k \in 1..Len(groups) :
                    /\ groups[k].line_of_business = lob
                    /\ groups[k].quote_year = year}
    IN IF hits = {} THEN 0 ELSE CHOOSE k \in hits : TRUE

\* Lines 1072-1097: qm_by_key after the first k quotes, in insertion order.
RECURSIVE QmByKey(_, _)
QmByKey(qs, k) ==
    IF k = 0 THEN <<>>
    ELSE LET prev == QmByKey(qs, k - 1)
             quote == qs[k]
             year == Year(quote.quote_date)
             lob == quote.line_of_business
             at == QuoteGroupIndex(prev, lob, year)
             gs == IF at = 0 THEN Append(prev, NewQuoteGroup(lob, year))
                   ELSE prev
             x == IF at = 0 THEN Len(gs) ELSE at
             Is(status) == IF quote.status = status THEN 1 ELSE 0
         IN [gs EXCEPT ![x] =
             [gs[x] EXCEPT
                 !.total_quotes = @ + 1,
                 !.total_quoted_premium = @ + quote.quoted_premium,
                 !.bound_quotes = @ + Is("BOUND"),
                 !.bound_quoted_premium =
                     @ + Is("BOUND") * quote.quoted_premium,
                 !.declined_quotes = @ + Is("DECLINED"),
                 !.expired_quotes = @ + Is("EXPIRED"),
                 !.lost_quotes = @ + Is("LOST")]]

\* Lines 1099-1107
GoldQuotes(qs) ==
    LET groups == QmByKey(qs, Len(qs)) IN
    [k \in 1..Len(groups) |->
        groups[k]
        @@ [close_ratio |->
                Round6(groups[k].bound_quotes,
                       Max(groups[k].total_quotes, 1)),
            average_quoted_premium |->
                RoundUnits(groups[k].total_quoted_premium,
                           Max(groups[k].total_quotes, 1), 0)]]

\* Lines 1111-1125: retention_by_lob after the first k current policies.
RECURSIVE RetentionByLob(_, _)
RetentionByLob(current, k) ==
    IF k = 0 THEN <<>>
    ELSE LET prev == RetentionByLob(current, k - 1)
             pol == current[k]
             hits == {x \in 1..Len(prev) :
                         prev[x].line_of_business = pol.line_of_business}
             gs == IF hits = {}
                   THEN Append(prev, [line_of_business |->
                                          pol.line_of_business,
                                      total_policies |-> 0,
                                      renewal_policies |-> 0,
                                      new_policies |-> 0])
                   ELSE prev
             x == IF hits = {} THEN Len(gs) ELSE CHOOSE y \in hits : TRUE
             renewal == IF pol.renewal_of_policy_id # None THEN 1 ELSE 0
         IN [gs EXCEPT ![x] =
             [gs[x] EXCEPT !.total_policies = @ + 1,
                           !.renewal_policies = @ + renewal,
                           !.new_policies = @ + 1 - renewal]]

\* Lines 1127-1133
GoldRetention(current) ==
    LET groups == RetentionByLob(current, Len(current)) IN
    [k \in 1..Len(groups) |->
        groups[k]
        @@ [retention_ratio |->
                Round6(groups[k].renewal_policies,
                       Max(groups[k].total_policies, 1)),
            new_business_ratio |->
                Round6(groups[k].new_policies,
                       Max(groups[k].total_policies, 1))]]

\* Lines 927-946: compute_gold_metrics is called on the frozen lists; it
\* is called again after it has returned.
GoldCall ==
    /\ stage = "gold" /\ pc = "outer" /\ Len(gold_runs) < 2
    /\ lob_year' = <<>>
    /\ i' = 1
    /\ pc' = "lob_year"
    /\ UNCHANGED <<stage, budget, j, n, base, next_id, policies, coverages,
                   claims, claim_txns, premium_txns, quotes>>
    /\ UNCHANGED <<gold_uw, gold_runs>>
    /\ UNCHANGED <<evalVars, cmpVars, gwVars>>

\* Lines 947-1002: one iteration of the loop over the current policies;
\* line 987 draws the factor when no EARNED amount is summed.
GoldPolicy ==
    /\ stage = "gold" /\ pc = "lob_year"
    /\ i <= Len(get_current_policies(policies))
    /\ LET pol == get_current_policies(policies)[i]
           wp == WrittenPremium(premium_txns, pol)
           earned == SumAmount(PremByPolicy(premium_txns, "EARNED",
                                            pol.policy_id))
           pol_claims == ClaimsByPolicy(claims, pol.policy_id)
       IN IF earned # 0
          THEN /\ lob_year' = AddPolicy(lob_year, pol, wp, earned, pol_claims)
               /\ UNCHANGED budget
          ELSE \E f \in EarnedFactorDraws :
               /\ Dev(f, 70) <= budget
               /\ budget' = budget - Dev(f, 70)
               /\ lob_year' = AddPolicy(lob_year, pol, wp,
                                        EarnedFallback(wp, f), pol_claims)
    /\ i' = i + 1
    /\ UNCHANGED <<stage, pc, j, n, base, next_id, policies, coverages,
                   claims, claim_txns, premium_txns, quotes>>
    /\ UNCHANGED <<gold_uw, gold_runs>>
    /\ UNCHANGED <<evalVars, cmpVars, gwVars>>

\* Lines 1004-1037: the loop over the groups; it draws nothing and
\* finishes each group in place.
GoldLobYear ==
    /\ stage = "gold" /\ pc = "lob_year"
    /\ i > Len(get_current_policies(policies))
    /\ lob_year' = [k \in 1..Len(lob_year) |-> GroupRow(lob_year[k])]
    /\ gold_uw' = <<>>
    /\ j' = 1
    /\ pc' = "uw"
    /\ UNCHANGED <<stage, budget, i, n, base, next_id, policies, coverages,
                   claims, claim_txns, premium_txns, quotes>>
    /\ UNCHANGED gold_runs
    /\ UNCHANGED <<evalVars, cmpVars, gwVars>>

\* Lines 1038-1068: one iteration of the loop over the group rows.
GoldUw ==
    /\ stage = "gold" /\ pc = "uw" /\ j <= Len(lob_year)
    /\ \E e \in ExpenseRatioDraws :
        /\ Dev(e, 25) <= budget
        /\ budget' = budget - Dev(e, 25)
        /\ gold_uw' = Append(gold_uw, UwRow(lob_year[j], e))
    /\ j' = j + 1
    /\ UNCHANGED <<stage, pc, i, n, base, next_id, policies, coverages,
                   claims, claim_txns, premium_txns, quotes>>
    /\ UNCHANGED <<lob_year, gold_runs>>
    /\ UNCHANGED <<evalVars, cmpVars, gwVars>>

\* Lines 1070-1135: the quote and retention metrics draw nothing; the call
\* returns the four lists and its locals are gone.
GoldReturn ==
    /\ stage = "gold" /\ pc = "uw" /\ j > Len(lob_year)
    /\ gold_runs' =
        Append(gold_runs,
               [gold_lob_year |-> lob_year,
                gold_uw |-> gold_uw,
                gold_quotes |-> GoldQuotes(quotes),
                gold_retention |->
                    GoldRetention(get_current_policies(policies))])
    /\ lob_year' = <<>> /\ gold_uw' = <<>>
    /\ i' = 1 /\ j' = 0
    /\ pc' = "outer"
    /\ UNCHANGED <<stage, budget, n, base, next_id, policies, coverages,
                   claims, claim_txns, premium_txns, quotes>>
    /\ UNCHANGED <<evalVars, cmpVars, gwVars>>

\* The lists of draw records that differ from the list base in at most k
\* fields altogether.
RECURSIVE SeqChoices(_, _, _)
SeqChoices(sets, base_list, k) ==
    IF k = 0 THEN {base_list}
    ELSE LET S == SeqChoices(sets, base_list, k - 1) IN
         S \cup UNION { {[s EXCEPT ![x][f] = v] : v \in sets[f]} :
                         s \in S, x \in 1..Len(base_list),
                         f \in DOMAIN sets }

\* The number of fields in which the records of s and base_list differ.
DevCount(s, base_list) ==
    SumSeq([x \in 1..Len(s) |->
               Cardinality({f \in DOMAIN s[x] : s[x][f] # base_list[x][f]})])

\* The inputs of compute_gold_metrics are lists the generators return:
\* those of the draws below, and those that differ from them in a few of
\* the draws named in the sets.
GoldPolicyDraws ==
    [lob |-> RandChoice(LOB_CODES), eff |-> {0, RandDateDelta},
     num_versions |-> {1, 2}, ren |-> MaybeNull({1})]
GoldPolicyBase ==
    [p \in 1..NUM_POLICIES |->
        [lob |-> LOB_CODES[((p - 1) % Len(LOB_CODES)) + 1], eff |-> 0,
         num_versions |-> 1, ren |-> None]]

\* The draws of gen_policies_with_cdc for the policy drawn as x: the
\* renewal reference is that of the current version.
GoldPolicyInput(x) ==
    [b |-> [PolicyBaseDefault EXCEPT !.lob = x.lob, !.eff = x.eff,
                                     !.num_versions = x.num_versions],
     d |-> [v \in 1..x.num_versions |->
               IF v = x.num_versions
               THEN [VersionDefault EXCEPT !.ren = x.ren]
               ELSE VersionDefault]]

GoldClaimDraws ==
    [pol |-> 1..NUM_POLICIES, del |-> RandBool, is_closed |-> RandBool,
     paid_loss |-> {0, 15000000}]
GoldClaimBase ==
    [c \in 1..NUM_CLAIMS |->
        [pol |-> ((c - 1) % NUM_POLICIES) + 1, del |-> FALSE,
         is_closed |-> FALSE, paid_loss |-> 15000000]]

GoldClaimInput(x) ==
    [ClaimDefault EXCEPT !.pol = x.pol, !.del = x.del,
                         !.is_closed = x.is_closed,
                         !.paid_loss = x.paid_loss]

\* One or two transactions per policy; the second is drawn as the default.
GoldPremiumDraws ==
    [num_txns |-> {1, 2}, type |-> {"WRITTEN", "EARNED"},
     amount |-> {-200000, 1500000}, rev |-> RandBool]
GoldPremiumBase ==
    [p \in 1..NUM_POLICIES |->
        [num_txns |-> 1, type |-> "WRITTEN", amount |-> 1500000,
         rev |-> FALSE]]

GoldPremiumInput(x) ==
    <<[PremiumDefault EXCEPT !.type = x.type, !.amount = x.amount,
                             !.rev = x.rev]>>
    \o (IF x.num_txns = 2 THEN <<PremiumDefault>> ELSE <<>>)

GoldQuoteDraws == [status |-> {"QUOTED", "BOUND"}]
GoldQuoteBase == [c \in 1..NUM_QUOTES |-> [status |-> "QUOTED"]]

\* ------------------------------------------- gen_staging_guidewire_claims
\* Lines 713-723: the event types of one claim, in the order of the list.
EventsOf(claim) ==
    <<"FNOL", "ASSIGNMENT">>
    \o (IF claim.reserve_amount > 0 THEN <<"RESERVE_SET">> ELSE <<>>)
    \o (IF claim.paid_loss_amount > 0 THEN <<"PAYMENT">> ELSE <<>>)
    \o (IF claim.claim_status = "CLOSED" THEN <<"CLOSURE">> ELSE <<>>)
    \o (IF claim.claim_status = "REOPENED" THEN <<"CLOSURE", "REOPEN">>
        ELSE <<>>)
    \o (IF claim.litigation_flag THEN <<"LITIGATION_REFERRAL">> ELSE <<>>)

\* Lines 728-732, 742-744: the random calls of one event: its number of
\* copies and, for copy c, the day rand_date returns (day), the days
\* random.randint(0, 3) returns (off), the seconds of the time of day
\* rand_ts adds (sec) and whether claimState is lower-cased (lower).
CopyDraws ==
    [day |-> RandDate, off |-> RandInt(0, 3), sec |-> RandInt(0, 86399),
     lower |-> RandBool]
CopyDefault == [day |-> 0, off |-> 0, sec |-> 0, lower |-> TRUE]
EventDraws ==
    {[num_copies |-> c, copy |-> <<d1, d2>>] :
        c \in {1, 2},
        d1 \in Choices(CopyDraws, CopyDefault, 1),
        d2 \in Choices(CopyDraws, CopyDefault, 1)}
\* The number of non-default draws among the calls the code makes: none
\* for a second copy that is not made.
EventCost(d) ==
    LET CopyCost(c) ==
            Cardinality({f \in DOMAIN CopyDefault :
                            d.copy[c][f] # CopyDefault[f]})
    IN Dev(d.num_copies, 1) + CopyCost(1)
       + (IF d.num_copies = 2 THEN CopyCost(2) ELSE 0)

\* Lines 730-732: extract_ts of copy number copy (0 or 1) as day and
\* second of the day.
ExtractTs(copy, d) == [day |-> d.day + copy * d.off, sec |-> d.sec]

\* Lines 733-765: the row of one copy of one event.
EventRow(event_id, claim, ev_type, copy, d) ==
    [eventId |-> event_id,
     claimPublicId |-> <<"GW", claim.claim_id>>,
     externalClaimNumber |-> claim.claim_number,
     eventType |-> ev_type,
     eventTimestamp |-> ExtractTs(copy, d),
     claimState |-> [status |-> claim.claim_status, lower |-> d.lower],
     closedDate |-> claim.close_date,
     isDeleted |-> claim.is_deleted,
     extractTimestamp |-> ExtractTs(copy, d)]

\* Lines 709-723: the loop takes the next claim; it skips a claim whose
\* source_system is not GUIDEWIRE_PC when random.random() > 0.4 (the
\* source_system of a claim is itself a draw of gen_claims, line 394).
GwClaimBegin ==
    /\ stage = "gw_claims" /\ pc = "outer" /\ i <= Len(claims)
    /\ \E skip \in RandBool :
        /\ Dev(skip, FALSE) <= budget
        /\ budget' = budget - Dev(skip, FALSE)
        /\ IF skip
           THEN /\ i' = i + 1
                /\ UNCHANGED <<pc, j, n, base>>
           ELSE /\ base' = [claim |-> claims[i],
                            events |-> EventsOf(claims[i])]
                /\ n' = Len(EventsOf(claims[i]))
                /\ j' = 0
                /\ pc' = "inner"
                /\ UNCHANGED i
    /\ UNCHANGED <<stage, next_id, policies, coverages, claims, claim_txns,
                   premium_txns, quotes, gw_rows>>
    /\ UNCHANGED <<evalVars, goldVars, cmpVars>>

\* Lines 725-766: one iteration of the loop over the events of the claim:
\* one row per copy.
GwEvent ==
    /\ stage = "gw_claims" /\ pc = "inner" /\ j < n
    /\ \E d \in EventDraws :
        /\ EventCost(d) <= budget
        /\ budget' = budget - EventCost(d)
        /\ gw_rows' =
            gw_rows
            \o [c \in 1..d.num_copies |->
                   EventRow(next_id + c - 1, base.claim, base.events[j + 1],
                            c - 1, d.copy[c])]
        /\ next_id' = next_id + d.num_copies
    /\ j' = j + 1
    /\ pc' = IF j + 1 < n THEN "inner" ELSE "outer"
    /\ i' = IF j + 1 < n THEN i ELSE i + 1
    /\ UNCHANGED <<stage, n, base, policies, coverages, claims, claim_txns,
                   premium_txns, quotes>>
    /\ UNCHANGED <<evalVars, goldVars, cmpVars>>

\* Line 767
GwReturn ==
    /\ stage = "gw_claims" /\ pc = "outer" /\ i > Len(claims)
    /\ pc' = "done"
    /\ UNCHANGED <<stage, budget, i, j, n, base, next_id, policies, coverages,
                   claims, claim_txns, premium_txns, quotes, gw_rows>>
    /\ UNCHANGED <<evalVars, goldVars, cmpVars>>

\* ---------------------------------------------- compare_numeric, called alone
\* The arguments of the calls, in thousandths: an expected value of 0 and
\* nonzero ones of either sign, actual values equal to, near and far from
\* them, and tolerances as float(tolerance) can give them, 0.0 being the
\* one of "exact" (lines 138, 149, 174).
CmpExpecteds == {-650, 0, 650}
CmpActuals == {-650, -5, 0, 5, 10, 640, 650, 800}
CmpTolerances ==
    {TolFloat([kind |-> "exact", n |-> 0]).v, DEFAULT_TOLERANCE, -10, 1000}

\* One call of compare_numeric (lines 68-79); at most two are followed.
CompareNumericCall ==
    /\ stage = "compare_numeric"
    /\ Len(cmp_calls) < 2
    /\ \E actual \in CmpActuals, expected \in CmpExpecteds,
          tolerance \in CmpTolerances :
        cmp_calls' = Append(cmp_calls,
                            [actual |-> actual, expected |-> expected,
                             tolerance |-> tolerance,
                             cmp |-> compare_numeric(actual, expected,
                                                     tolerance)])
    /\ UNCHANGED <<genVars, evalVars, goldVars, gwVars>>

\* ------------------------------------------------- properties: policies
\* gen_policies_with_cdc has returned its list.
PoliciesDone == stage = "policies" /\ pc = "done"

VersionsOf(pols, pid) == {k \in 1..Len(pols) : pols[k].policy_id = pid}
PolicyIds(pols) == {pols[k].policy_id : k \in 1..Len(pols)}

\* C1: in the list gen_policies_with_cdc returns, every policy_id has
\* exactly one version with is_current_record = true, and that version has
\* the largest version_number of the policy's versions.
C1_OneCurrentVersionIsLatest ==
    PoliciesDone =>
        /\ PolicyIds(policies) = 1..NUM_POLICIES
        /\ \A pid \in PolicyIds(policies) :
            LET cur == {k \in VersionsOf(policies, pid) :
                            policies[k].is_current_record}
            IN /\ Cardinality(cur) = 1
               /\ \A k \in cur : \A m \in VersionsOf(policies, pid) :
                    policies[m].version_number <= policies[k].version_number

\* Witness of C1: a returned list with a policy of three versions.
C1_Witness ==
    /\ PoliciesDone
    /\ \E k \in 1..Len(policies) : policies[k].version_number = 3

\* C2 (as claimed): _valid_from is strictly increasing in version_number
\* among the versions of one policy_id.
C2_ValidFromStrictlyIncreasing ==
    \A a, b \in 1..Len(policies) :
        (/\ policies[a].policy_id = policies[b].policy_id
         /\ policies[a].version_number < policies[b].version_number)
        => policies[a].valid_from < policies[b].valid_from

\* C3: every policy version row has
\* binding_date <= issue_date <= system_entry_date <= booking_date.
C3_DateOrdering ==
    \A k \in 1..Len(policies) :
        /\ policies[k].binding_date <= policies[k].issue_date
        /\ policies[k].issue_date <= policies[k].system_entry_date
        /\ policies[k].system_entry_date <= policies[k].booking_date

\* Witness of C3: a generated row whose issue lags its binding and whose
\* booking lags its system entry.
C3_Witness ==
    /\ stage = "policies"
    /\ \E k \in 1..Len(policies) :
        /\ policies[k].binding_date < policies[k].issue_date
        /\ policies[k].system_entry_date < policies[k].booking_date

\* C4: a current version is never soft-deleted, and get_current_policies
\* of the returned list has exactly one row for every generated policy_id.
C4_CurrentNeverDeleted ==
    /\ stage = "policies" =>
        \A k \in 1..Len(policies) :
            policies[k].is_current_record => ~policies[k].is_deleted
    /\ PoliciesDone =>
        \A pid \in 1..NUM_POLICIES :
            Cardinality(VersionsOf(get_current_policies(policies), pid)) = 1

\* Witness of C4: a returned list that holds a soft-deleted version.
C4_Witness ==
    /\ PoliciesDone
    /\ \E k \in 1..Len(policies) : policies[k].is_deleted

\* ---------------------------------------- properties: derived generators
\* The rows of list rows whose field transaction_id is id.
TxnsWithId(rows, id) == {k \in 1..Len(rows) : rows[k].transaction_id = id}

\* C5: every VOID claim transaction names, in void_of_transaction_id, a
\* transaction of the output that is a PAYMENT on the same claim; the
\* VOID's amount is the negation of the payment's, and
\* posting_date(void) >= transaction_date(void) >= transaction_date(payment).
C5_VoidNegatesItsPayment ==
    \A k \in 1..Len(claim_txns) :
        claim_txns[k].transaction_type = "VOID" =>
            /\ claim_txns[k].void_of_transaction_id # None
            /\ LET orig == TxnsWithId(claim_txns,
                              claim_txns[k].void_of_transaction_id[1])
               IN /\ Cardinality(orig) = 1
                  /\ \A m \in orig :
                      /\ claim_txns[m].transaction_type = "PAYMENT"
                      /\ claim_txns[m].claim_id = claim_txns[k].claim_id
                      /\ claim_txns[k].amount = 0 - claim_txns[m].amount
                      /\ claim_txns[k].amount + claim_txns[m].amount = 0
                      /\ claim_txns[k].transaction_date
                            >= claim_txns[m].transaction_date
            /\ claim_txns[k].posting_date >= claim_txns[k].transaction_date

\* Witness of C5: a VOID of a payment of a non-zero amount is in the output.
C5_Witness ==
    \E k \in 1..Len(claim_txns) :
        /\ claim_txns[k].transaction_type = "VOID"
        /\ claim_txns[k].amount # 0

\* C6: every premium transaction with is_reversal = true names, in
\* reversal_of_transaction_id, a transaction of the output that is not a
\* reversal and is on the same policy, and its amount is the negation of
\* that transaction's amount.
C6_ReversalNegatesItsOriginal ==
    \A k \in 1..Len(premium_txns) :
        premium_txns[k].is_reversal =>
            /\ premium_txns[k].reversal_of_transaction_id # None
            /\ LET orig == TxnsWithId(premium_txns,
                              premium_txns[k].reversal_of_transaction_id[1])
               IN /\ Cardinality(orig) = 1
                  /\ \A m \in orig :
                      /\ ~premium_txns[m].is_reversal
                      /\ premium_txns[m].policy_id = premium_txns[k].policy_id
                      /\ premium_txns[k].amount = 0 - premium_txns[m].amount

\* Witness of C6: a reversal is in the output.
C6_Witness ==
    \E k \in 1..Len(premium_txns) :
        /\ premium_txns[k].is_reversal
        /\ premium_txns[k].amount # 0

\* C7 (as claimed): on every premium transaction row, REVERSAL rows
\* included, effective_date is before transaction_date only for an
\* ENDORSEMENT, and equals transaction_date for every other type.
C7_BackdatedOnlyEndorsement ==
    \A k \in 1..Len(premium_txns) :
        /\ premium_txns[k].effective_date < premium_txns[k].transaction_date
            => premium_txns[k].transaction_type = "ENDORSEMENT"
        /\ premium_txns[k].transaction_type # "ENDORSEMENT"
            => premium_txns[k].effective_date
                = premium_txns[k].transaction_date

\* C7 (amended): on every premium transaction row that is not a REVERSAL,
\* effective_date is before transaction_date only for an ENDORSEMENT and
\* equals transaction_date for every other type; a REVERSAL row carries the
\* effective_date of the transaction it reverses, which is before the
\* REVERSAL's own transaction_date.
C7_BackdatedOnlyEndorsementOrReversal ==
    \A k \in 1..Len(premium_txns) :
        IF premium_txns[k].transaction_type # "REVERSAL"
        THEN /\ premium_txns[k].effective_date
                    <= premium_txns[k].transaction_date
             /\ premium_txns[k].transaction_type # "ENDORSEMENT"
                    => premium_txns[k].effective_date
                        = premium_txns[k].transaction_date
        ELSE /\ premium_txns[k].effective_date
                    < premium_txns[k].transaction_date
             /\ \A m \in TxnsWithId(premium_txns,
                            premium_txns[k].reversal_of_transaction_id[1]) :
                    premium_txns[k].effective_date
                        = premium_txns[m].effective_date

\* Witness of C7: a backdated ENDORSEMENT is in the output.
C7_Witness ==
    \E k \in 1..Len(premium_txns) :
        /\ premium_txns[k].transaction_type = "ENDORSEMENT"
        /\ premium_txns[k].effective_date < premium_txns[k].transaction_date

\* The rows of the policy list that are the current state of policy pid.
CurrentState(pid) ==
    {k \in 1..Len(policies) :
        /\ policies[k].policy_id = pid
        /\ policies[k].is_current_record
        /\ ~policies[k].is_deleted}

\* C8: every coverage, claim and premium transaction row has the policy_id
\* of a policy with a current state and carries that row's attributes, and
\* every claim transaction is on a claim that is not soft-deleted.
C8_RowsReferenceCurrentState ==
    /\ \A c \in 1..Len(coverages) :
        \E k \in CurrentState(coverages[c].policy_id) :
            coverages[c].effective_date = policies[k].effective_date
    /\ \A c \in 1..Len(claims) :
        \E k \in CurrentState(claims[c].policy_id) :
            /\ claims[c].policy_number = policies[k].policy_number
            /\ claims[c].line_of_business = policies[k].line_of_business
    /\ \A t \in 1..Len(premium_txns) :
        \E k \in CurrentState(premium_txns[t].policy_id) :
            /\ premium_txns[t].policy_number = policies[k].policy_number
            /\ premium_txns[t].line_of_business
                = policies[k].line_of_business
    /\ \A t \in 1..Len(claim_txns) :
        \E c \in 1..Len(claims) :
            /\ claims[c].claim_id = claim_txns[t].claim_id
            /\ claims[c].claim_number = claim_txns[t].claim_number
            /\ ~claims[c].is_deleted

\* Witness of C8: gen_claim_transactions has returned transactions for a
\* claim list that holds a soft-deleted claim.
C8_Witness ==
    /\ stage = "claim_txns" /\ pc = "done"
    /\ Len(claim_txns) > 0
    /\ \E c \in 1..Len(claims) : claims[c].is_deleted

\* gen_coverages has returned its list.
CoveragesDone == stage = "coverages" /\ pc = "done"
CoveragesOf(pid) == {c \in 1..Len(coverages) : coverages[c].policy_id = pid}
WithCurrentState == {pid \in PolicyIds(policies) : CurrentState(pid) # {}}

\* C9 (as claimed): in the list gen_coverages returns, every policy with a
\* current state has at least 1 and at most 5 coverage rows.
C9_OneToFiveCoverages ==
    CoveragesDone =>
        \A pid \in WithCurrentState :
            /\ Cardinality(CoveragesOf(pid)) >= 1
            /\ Cardinality(CoveragesOf(pid)) <= 5

\* C9 (amended): in the list gen_coverages returns, every policy with a
\* current state has at most 5 coverage rows, and it has at least 1 unless
\* the list was cut at NUM_COVERAGES rows before the policy's turn.
C9_AtMostFiveCoverages ==
    CoveragesDone =>
        /\ Len(coverages) <= NUM_COVERAGES
        /\ \A pid \in WithCurrentState :
            /\ Cardinality(CoveragesOf(pid)) <= 5
            /\ Cardinality(CoveragesOf(pid)) = 0 =>
                /\ Len(coverages) = NUM_COVERAGES
                /\ \A c \in 1..Len(coverages) : coverages[c].policy_id < pid

\* Witness of C9: a returned list in which one policy has 5 coverage rows
\* and another has none.
C9_Witness ==
    /\ CoveragesDone
    /\ \E pid \in WithCurrentState : Cardinality(CoveragesOf(pid)) = 5
    /\ \E pid \in WithCurrentState : Cardinality(CoveragesOf(pid)) = 0

\* C27: gen_coverages, gen_claim_transactions and gen_premium_transactions
\* never return more rows than their row target, and return fewer only
\* when every input item has had its turn; the ids are 1..n in output
\* order; a VOID or REVERSAL row is never without its original, which is
\* the row before it (id - 1), of the same claim or policy.
C27_RowTargetsCutTheOutput ==
    /\ Len(coverages) <= NUM_COVERAGES
    /\ Len(claim_txns) <= NUM_CLAIM_TRANSACTIONS
    /\ Len(premium_txns) <= NUM_PREMIUM_TRANSACTIONS
    /\ \A k \in 1..Len(coverages) : coverages[k].coverage_id = k
    /\ \A k \in 1..Len(claim_txns) :
        /\ claim_txns[k].transaction_id = k
        /\ claim_txns[k].transaction_type = "VOID" <=> claim_txns[k].is_void
        /\ claim_txns[k].is_void
            => /\ k > 1
               /\ claim_txns[k].void_of_transaction_id = Some(k - 1)
               /\ claim_txns[k - 1].transaction_type = "PAYMENT"
               /\ claim_txns[k - 1].claim_id = claim_txns[k].claim_id
    /\ \A k \in 1..Len(premium_txns) :
        /\ premium_txns[k].transaction_id = k
        /\ premium_txns[k].transaction_type = "REVERSAL"
            <=> premium_txns[k].is_reversal
        /\ premium_txns[k].is_reversal
            => /\ k > 1
               /\ premium_txns[k].reversal_of_transaction_id = Some(k - 1)
               /\ ~premium_txns[k - 1].is_reversal
               /\ premium_txns[k - 1].policy_id = premium_txns[k].policy_id
    /\ pc = "done" =>
        /\ stage = "coverages"
            => \/ Len(coverages) = NUM_COVERAGES
               \/ i > Len(get_current_policies(policies))
        /\ stage = "claim_txns"
            => \/ Len(claim_txns) = NUM_CLAIM_TRANSACTIONS
               \/ i > Len(get_active_claims(claims))
        /\ stage = "premium_txns"
            => \/ Len(premium_txns) = NUM_PREMIUM_TRANSACTIONS
               \/ i > Len(get_current_policies(policies))

\* gen_claim_transactions has returned in the middle of a claim with
\* exactly NUM_CLAIM_TRANSACTIONS rows, the list holding a PAYMENT with its
\* VOID and ending with a PAYMENT.
C27_Witness ==
    /\ stage = "claim_txns" /\ pc = "done" /\ j < n
    /\ i <= Len(get_active_claims(claims))
    /\ Len(claim_txns) = NUM_CLAIM_TRANSACTIONS
    /\ claim_txns[Len(claim_txns)].transaction_type = "PAYMENT"
    /\ \E k \in 1..Len(claim_txns) : claim_txns[k].is_void

\* C10 (as claimed): a quote has a bound_policy_id only when its status is
\* BOUND.
C10_BoundPolicyOnlyWhenBound ==
    \A k \in 1..Len(quotes) :
        quotes[k].bound_policy_id # None => quotes[k].status = "BOUND"

\* C13: a non-null renewal_of_policy_id names a prior policy: a policy_id
\* strictly smaller than the policy_id of the row that carries it.
C13_RenewalRefersToPriorPolicy ==
    \A k \in 1..Len(policies) :
        policies[k].renewal_of_policy_id # None
            => policies[k].renewal_of_policy_id[1] < policies[k].policy_id

\* C23: a version after the first that does not take the transition to
\* CANCELLED (it carries no cancellation_date) has the policy_status of the
\* version before it; cancellation_date and cancellation_reason are set
\* together, only on a version after the first whose status is CANCELLED,
\* and the cancellation_date is then after the effective_date.
C23_PriorStatusRetained ==
    \A k \in 1..Len(policies) :
        LET row == policies[k] IN
        /\ row.version_number > 1 /\ row.cancellation_date = None
            => row.policy_status = policies[k - 1].policy_status
        /\ (row.cancellation_date = None) = (row.cancellation_reason = None)
        /\ row.cancellation_date # None
            => /\ row.version_number > 1
               /\ row.policy_status = "CANCELLED"
               /\ row.cancellation_date[1] > row.effective_date

\* ---------------------------------------------------- properties: claims
\* C14: close_date is set only on a claim whose status is CLOSED or
\* REOPENED; reopen_date is set only on a REOPENED claim, which then has a
\* close_date, and reopen_date is strictly after close_date.
C14_CloseAndReopenDates ==
    \A k \in 1..Len(claims) :
        LET c == claims[k] IN
        /\ c.close_date # None => c.claim_status \in {"CLOSED", "REOPENED"}
        /\ c.reopen_date # None =>
               /\ c.claim_status = "REOPENED"
               /\ c.close_date # None
               /\ c.reopen_date[1] > c.close_date[1]

\* gen_claims has returned a claim that was closed and reopened.
C14_Witness ==
    /\ stage = "claims" /\ pc = "done"
    /\ \E k \in 1..Len(claims) :
           claims[k].close_date # None /\ claims[k].reopen_date # None

\* C24: a claim whose claim_status is REOPENED was closed first: it has a
\* close_date and a reopen_date, and the reopen_date is strictly after the
\* close_date.
C24_ReopenedWasClosedFirst ==
    \A k \in 1..Len(claims) :
        claims[k].claim_status = "REOPENED"
            => /\ claims[k].close_date # None
               /\ claims[k].reopen_date # None
               /\ claims[k].reopen_date[1] > claims[k].close_date[1]

\* -------------------------------------------------- properties: run_eval
\* score_question has returned the score of q for agent_answer.
Scored == stage = "eval" /\ pc = "scored"
\* An exception of score_question has ended run_eval.
EvalRaised == stage = "eval" /\ pc = "raised"
\* The question is not qualitative and its gold query returns rows.
HasGold == q.tolerance.kind # "qualitative" /\ q.gold = "rows"
\* The tolerance fraction of q, in thousandths: 0.05 by default, 0 for
\* "exact".
ToleranceOfQ ==
    IF q.tolerance.kind = "exact" THEN 0
    ELSE IF q.tolerance.kind = "absent" THEN 50
    ELSE q.tolerance.n
\* Relative-tolerance comparison of two numbers in thousandths.
WithinTolerance(actual, expected, tol) ==
    IF expected = 0 THEN Abs(actual) < 10
    ELSE Abs(actual - expected) * 1000 <= tol * Abs(expected)

\* C15: a question whose tolerance is "qualitative" gets passed = null for
\* every agent answer, get_gold_answer is not called for it, and no later
\* step of score_question (gold lookup, comparison, exception) is reached.
C15_QualitativeIsManualReview ==
    /\ Scored /\ q.tolerance.kind = "qualitative"
        => /\ score.passed = None
           /\ score.reason = "qualitative - manual review required"
           /\ ~gold_ran
    /\ stage = "eval" /\ pc \in {"compare", "raised"}
        => q.tolerance.kind # "qualitative"

\* A qualitative question whose gold query would raise is scored for an
\* agent that answered with a mapping.
C15_Witness ==
    /\ Scored /\ q.tolerance.kind = "qualitative" /\ q.gold = "raises"
    /\ agent_answer.numeric_result.kind = "dict"
    /\ score.passed = None

\* C16: a question whose gold query is absent, returns no rows or raises
\* gets passed = null, and its failure does not end run_eval: run_eval is
\* never left by the exception of a gold query.
C16_GoldFailureIsManualReview ==
    /\ Scored /\ q.tolerance.kind # "qualitative" /\ q.gold # "rows"
        => score.passed = None
    /\ ~(EvalRaised /\ q.gold = "raises")

\* C17: with expected_value defined and a number as numeric_result, passed
\* is |actual| < 0.01 for expected = 0 and |actual - expected| / |expected|
\* <= tolerance otherwise, and score_question returns.
C17_SingleValueComparison ==
    stage = "eval" /\ pc \in {"scored", "raised"} /\ HasGold
    /\ q.expected_value.t = "num"
    /\ agent_answer.numeric_result.kind = "scalar"
    /\ agent_answer.numeric_result.scalar.t = "num"
        => /\ pc = "scored"
           /\ score.passed =
                Some(WithinTolerance(agent_answer.numeric_result.scalar.n,
                                     q.expected_value.n, ToleranceOfQ))

\* expected_value 0.65 under "exact": the agent's 0.64 fails.
C17_Witness ==
    /\ Scored /\ HasGold /\ q.tolerance.kind = "exact"
    /\ q.expected_value = Num(650)
    /\ agent_answer.numeric_result.scalar = Num(640)
    /\ score.passed = Some(FALSE)

\* Both values parse as numbers.
BothNumbers(actual, expected_val) ==
    Float(actual).exc = "" /\ Float(expected_val).exc = ""
\* The per-key rule: a key the agent does not give fails; two numbers are
\* compared under the tolerance; anything else by the upper-cased trimmed
\* texts.
KeyPasses(actual, expected_val) ==
    /\ actual.t # "absent"
    /\ IF BothNumbers(actual, expected_val)
       THEN WithinTolerance(Float(actual).v, Float(expected_val).v,
                            ToleranceOfQ)
       ELSE StrUpper(StrStrip(PyStr(actual)))
            = StrUpper(StrStrip(PyStr(expected_val)))

\* C18: with expected_values defined and a mapping as numeric_result, every
\* expected key has its own comparison, and passed is the conjunction of
\* the per-key results over the expected keys; keys only the agent gives
\* play no part.
C18_KeyedComparison ==
    stage = "eval" /\ pc \in {"scored", "raised"} /\ HasGold
    /\ q.expected_values # None
    /\ agent_answer.numeric_result.kind = "dict"
        => LET expected == q.expected_values[1]
               actual == agent_answer.numeric_result.keyed
               keys == {k \in Range(KEYS) : expected[k].t # "absent"}
           IN /\ pc = "scored"
              /\ score.passed =
                   Some(\A k \in keys : KeyPasses(actual[k], expected[k]))
              /\ \A k \in keys :
                   score.comparisons[k] = "pass"
                       <=> KeyPasses(actual[k], expected[k])
              /\ \A k \in Range(KEYS) \ keys : score.comparisons[k] = "none"

\* expected_values {loss_ratio: 0.55, lob: "HO"} and the agent's
\* {loss_ratio: 0.551, lob: "ho"}: the question passes.
C18_Witness ==
    /\ Scored /\ HasGold /\ q.tolerance.kind = "fraction"
    /\ q.expected_values = Some(Keyed(Num(550), Str(<<"H", "O">>)))
    /\ agent_answer.numeric_result.keyed
         = Keyed(Num(551), Str(<<"h", "o">>))
    /\ score.passed = Some(TRUE)

\* C19: score_question does not raise on a numeric_result whose type does
\* not match the expected value: run_eval is never left by a ValueError or
\* a TypeError.
C19_TypeMismatchNeverRaises ==
    ~(EvalRaised /\ error \in {"ValueError", "TypeError"})

\* Which comparison rule takes the answer: rule 1 with expected_value and
\* a numeric_result, rule 2 with expected_values and a mapping, rule 3 with
\* expected_value, no numeric_result and a number in the response.
RuleApplies ==
    \/ q.expected_value.t # "absent"
       /\ agent_answer.numeric_result.kind # "none"
    \/ q.expected_values # None /\ agent_answer.numeric_result.kind = "dict"
    \/ q.expected_value.t # "absent"
       /\ \E k \in 1..Len(agent_answer.response) :
              IsDigit(agent_answer.response[k])

\* C20: with a gold answer and no comparison rule that applies, the score
\* has passed = null and the "could not compare" reason; passed = false
\* comes only from a comparison that was made.
C20_NoComparisonIsNull ==
    Scored =>
        /\ HasGold /\ ~RuleApplies
            => /\ score.passed = None
               /\ score.reason
                    = "could not compare - no numeric result from agent"
        /\ score.passed = Some(FALSE)
            => HasGold /\ RuleApplies /\ score.rule # ""

\* The stub's answer (no numeric_result, no number in the response) to a
\* question with expected_value and a gold answer.
C20_Witness ==
    /\ Scored /\ HasGold /\ q.expected_value = Num(650)
    /\ agent_answer.numeric_result.kind = "none"
    /\ agent_answer.response = <<"n", "o">>
    /\ score.passed = None

\* The number the fallback reads from the modelled responses, in
\* thousandths: none in "no", 0.64 in "0.64", 15 in "$1,5 h".
NumberInResponse(response) ==
    IF response = <<"0", ".", "6", "4">> THEN Some(640)
    ELSE IF response = <<"$", "1", ",", "5", " ", "h">> THEN Some(15000)
    ELSE None

\* C26: the score carries extraction_method exactly when the question
\* defines expected_value, the agent supplied no numeric_result and the
\* response, without ',', '$' and '%', holds a number; the first such
\* number is then compared with expected_value as rule 1 compares. With a
\* numeric_result supplied the response text is never used.
C26_FallbackOnlyWithoutNumericResult ==
    /\ Scored /\ HasGold =>
        /\ score.rule = "regex"
            <=> /\ q.expected_value.t # "absent"
                /\ agent_answer.numeric_result.kind = "none"
                /\ NumberInResponse(agent_answer.response) # None
        /\ score.rule = "regex" /\ q.expected_value.t = "num"
            => score.passed =
                Some(WithinTolerance(
                        NumberInResponse(agent_answer.response)[1],
                        q.expected_value.n, ToleranceOfQ))
    /\ Scored /\ ~HasGold => score.rule # "regex"
    /\ stage = "eval" /\ pc = "raised" /\ HasGold
        => agent_answer.numeric_result.kind # "none"

\* The agent gave no numeric_result and the response "0.64": it passes
\* against expected_value 0.65 at the default tolerance, by extraction.
C26_Witness ==
    /\ Scored /\ HasGold /\ q.tolerance.kind = "absent"
    /\ q.expected_value = Num(650)
    /\ agent_answer.numeric_result.kind = "none"
    /\ agent_answer.response = <<"0", ".", "6", "4">>
    /\ score.rule = "regex" /\ score.passed = Some(TRUE)

\* C22: run_eval calls the agent once per question, in input order and
\* never twice for one question; the results hold one score per question
\* scored so far, in input order; and when run_eval returns there is one
\* result per question of the batch, each in exactly one of the scorecard's
\* buckets, so that passed + failed + manual is the number of questions.
C22_OneCallOneResultOneBucket ==
    /\ agent_calls = [k \in 1..Len(agent_calls) |-> k]
    /\ Len(agent_calls) <= n
    /\ \A k \in 1..Len(results) : results[k].id = k
    /\ Len(results) = i - 1
    /\ Len(agent_calls) = IF pc = "outer" \/ pc = "done" THEN i - 1 ELSE i
    /\ Scorecard(results).passed + Scorecard(results).failed
       + Scorecard(results).manual = Len(results)
    /\ pc = "done" => /\ Len(results) = n /\ Len(agent_calls) = n
                      /\ Scorecard(results).total = n

\* run_eval has returned for a batch of two questions, one passed and one
\* left to manual review.
C22_Witness ==
    /\ stage = "eval" /\ pc = "done" /\ n = 2
    /\ agent_calls = <<1, 2>>
    /\ Scorecard(results).passed = 1 /\ Scorecard(results).manual = 1

\* ------------------------------------- properties: compute_gold_metrics
\* The part of an underwriting row that does not come from the expense
\* ratio drawn at line 1039.
UwFixedPart(row) ==
    [line_of_business |-> row.line_of_business,
     policy_year |-> row.policy_year,
     written_premium |-> row.written_premium,
     earned_premium |-> row.earned_premium,
     net_incurred_loss |-> row.net_incurred_loss,
     total_lae |-> row.total_lae,
     loss_ratio |-> row.loss_ratio,
     lae_ratio |-> row.lae_ratio]

\* C11: two runs of compute_gold_metrics on the same frozen lists return
\* the same gold_lob_year rows (earned_premium, loss_ratio and lae_ratio
\* among them), the same quote and retention rows, and underwriting rows
\* that agree in every field not derived from the expense-ratio draw.
C11_RunsAgreeOutsideExpenseDraw ==
    \A a, b \in 1..Len(gold_runs) :
        /\ gold_runs[a].gold_lob_year = gold_runs[b].gold_lob_year
        /\ gold_runs[a].gold_quotes = gold_runs[b].gold_quotes
        /\ gold_runs[a].gold_retention = gold_runs[b].gold_retention
        /\ Len(gold_runs[a].gold_uw) = Len(gold_runs[b].gold_uw)
        /\ \A k \in 1..Len(gold_runs[a].gold_uw) :
            UwFixedPart(gold_runs[a].gold_uw[k])
            = UwFixedPart(gold_runs[b].gold_uw[k])

\* The ids the REVERSAL rows of txns name.
ReversedIds(txns) ==
    {txns[k].reversal_of_transaction_id[1] :
        k \in {x \in 1..Len(txns) : txns[x].is_reversal}}

\* The sum over the transactions of one type and policy that are neither
\* a REVERSAL nor reversed.
NettedSum(txns, type, pid) ==
    SumAmount(SelectSeq(txns,
        LAMBDA p : /\ ~p.is_reversal
                   /\ p.transaction_id \notin ReversedIds(txns)
                   /\ p.transaction_type = type
                   /\ p.policy_id = pid))

\* The current policies of the group of a gold_lob_year row.
MembersOf(row) ==
    SelectSeq(get_current_policies(policies),
        LAMBDA p : /\ p.line_of_business = row.line_of_business
                   /\ Year(p.effective_date) = row.policy_year)

\* C12: in every group, written_premium is the sum, over the policies of
\* the group, of the WRITTEN amounts that are neither a REVERSAL nor
\* reversed (total_premium for a policy where that sum is 0), and
\* earned_premium is the like sum of the EARNED amounts where no policy of
\* the group has the sum 0.
C12_PremiumSumsSkipReversedRows ==
    \A r \in 1..Len(gold_runs) :
        \A g \in 1..Len(gold_runs[r].gold_lob_year) :
            LET row == gold_runs[r].gold_lob_year[g]
                members == MembersOf(row)
                Written(p) ==
                    LET s == NettedSum(premium_txns, "WRITTEN", p.policy_id)
                    IN IF s = 0 THEN p.total_premium ELSE s
                Earned(p) == NettedSum(premium_txns, "EARNED", p.policy_id)
            IN /\ row.written_premium =
                    SumSeq([k \in 1..Len(members) |-> Written(members[k])])
               /\ (\A k \in 1..Len(members) : Earned(members[k]) # 0)
                    => row.earned_premium =
                        SumSeq([k \in 1..Len(members) |->
                                   Earned(members[k])])

\* C29: in what compute_gold_metrics returns, the claim_count of a group
\* is the number of non-deleted claims on the policies whose current state
\* is in the group, so that the claim_counts sum to the number of
\* non-deleted claims (a deleted claim is counted nowhere, no claim
\* twice); the policy_counts sum to the number of policy_ids; and in every
\* group open_claim_count + closed_claim_count = claim_count.
C29_EveryActiveClaimInOneGroup ==
    \A r \in 1..Len(gold_runs) :
        LET rows == gold_runs[r].gold_lob_year
            Count(f) == SumSeq([k \in 1..Len(rows) |-> rows[k][f]])
        IN /\ \A k \in 1..Len(rows) :
                /\ rows[k].claim_count =
                    Cardinality({c \in 1..Len(claims) :
                        /\ ~claims[c].is_deleted
                        /\ \E p \in 1..Len(MembersOf(rows[k])) :
                            MembersOf(rows[k])[p].policy_id
                                = claims[c].policy_id})
                /\ rows[k].policy_count = Len(MembersOf(rows[k]))
                /\ rows[k].open_claim_count + rows[k].closed_claim_count
                    = rows[k].claim_count
           /\ \A k, l \in 1..Len(rows) :
                /\ rows[k].line_of_business = rows[l].line_of_business
                /\ rows[k].policy_year = rows[l].policy_year
                => k = l
           /\ Count("claim_count")
                = Cardinality({c \in 1..Len(claims) : ~claims[c].is_deleted})
           /\ Count("policy_count")
                = Cardinality({policies[p].policy_id : p \in 1..Len(policies)})

\* compute_gold_metrics has returned two groups for a claim list with a
\* deleted claim: the claim that is left is counted once.
C29_Witness ==
    /\ \E c \in 1..Len(claims) : claims[c].is_deleted
    /\ \E c \in 1..Len(claims) : ~claims[c].is_deleted
    /\ \E r \in 1..Len(gold_runs) :
        /\ Len(gold_runs[r].gold_lob_year) >= 2
        /\ \E k \in 1..Len(gold_runs[r].gold_lob_year) :
            gold_runs[r].gold_lob_year[k].claim_count = 1

\* C25: in what compute_gold_metrics returns every ratio is its numerator
\* divided by max(denominator, 1) - so it is defined for a group without
\* claims and for one with an earned premium of zero or below - and
\* combined_ratio is loss_ratio + lae_ratio + underwriting_expense_ratio.
C25_RatiosFloorTheDenominator ==
    \A r \in 1..Len(gold_runs) :
        /\ \A k \in 1..Len(gold_runs[r].gold_lob_year) :
            LET m == gold_runs[r].gold_lob_year[k]
                exposure == IF m.total_exposure_units > 100
                            THEN m.total_exposure_units ELSE 100
                ep == IF m.earned_premium > 100 THEN m.earned_premium
                      ELSE 100
                cnt == IF m.claim_count > 1 THEN m.claim_count ELSE 1
                pol_cnt == IF m.policy_count > 1 THEN m.policy_count ELSE 1
            IN /\ m.frequency = Round6(m.claim_count * 100, exposure)
               /\ m.severity = RoundUnits(m.net_incurred_loss, cnt, 0)
               /\ m.pure_premium
                    = RoundUnits(m.net_incurred_loss, exposure, 2)
               /\ m.average_premium
                    = RoundUnits(m.written_premium, pol_cnt, 0)
               /\ m.loss_ratio = Round6(m.net_incurred_loss, ep)
               /\ m.lae_ratio = Round6(m.total_lae, ep)
               /\ m.combined_loss_lae_ratio
                    = Round6(m.net_incurred_loss + m.total_lae, ep)
        /\ \A k \in 1..Len(gold_runs[r].gold_uw) :
            LET u == gold_runs[r].gold_uw[k]
                ep == IF u.earned_premium > 100 THEN u.earned_premium
                      ELSE 100
            IN /\ u.operating_expense_ratio
                    = Round6(u.operating_expense, ep)
               /\ u.underwriting_profit_ratio
                    = Round6(u.underwriting_profit, ep)
               /\ u.combined_ratio
                    = DecAdd(DecAdd(u.loss_ratio, u.lae_ratio),
                             u.underwriting_expense_ratio)
        /\ \A k \in 1..Len(gold_runs[r].gold_quotes) :
            LET qm == gold_runs[r].gold_quotes[k] IN
            /\ qm.total_quotes >= 1
            /\ qm.close_ratio = Round6(qm.bound_quotes, qm.total_quotes)
        /\ \A k \in 1..Len(gold_runs[r].gold_retention) :
            LET rm == gold_runs[r].gold_retention[k] IN
            /\ rm.total_policies >= 1
            /\ rm.retention_ratio
                 = Round6(rm.renewal_policies, rm.total_policies)
            /\ rm.new_business_ratio
                 = Round6(rm.new_policies, rm.total_policies)

\* compute_gold_metrics has returned a group with a negative earned
\* premium and a paid loss: its loss_ratio is the net incurred loss divided
\* by 1, and its underwriting row has a combined_ratio.
C25_Witness ==
    \E r \in 1..Len(gold_runs) :
        \E k \in 1..Len(gold_runs[r].gold_lob_year) :
            LET m == gold_runs[r].gold_lob_year[k] IN
            /\ m.earned_premium < 0 /\ m.net_incurred_loss > 0
            /\ m.loss_ratio = [int |-> m.net_incurred_loss \div 100,
                               frac |-> 0]
            /\ gold_runs[r].gold_uw[k].combined_ratio.int >= m.loss_ratio.int

\* ------------------------------------------ properties: compare_numeric
\* C21 as stated: compare_numeric(x, x, t) passes for every x and every
\* tolerance t, x = 0 included.
C21_EqualValuesPass ==
    \A k \in 1..Len(cmp_calls) :
        cmp_calls[k].actual = cmp_calls[k].expected
            => cmp_calls[k].cmp.passed

\* C21, amended: compare_numeric(x, x, t) passes for every x # 0 and every
\* tolerance t >= 0, and fails for every t < 0 (the relative error 0 is
\* compared with t); compare_numeric(0, 0, t) passes for every t.
C21_EqualValuesPassUnlessNegativeTolerance ==
    \A k \in 1..Len(cmp_calls) :
        LET c == cmp_calls[k]
        IN c.actual = c.expected
            => /\ c.expected # 0
                    => /\ c.cmp.passed = (c.tolerance >= 0)
                       /\ c.cmp.rel_error = Some(<<0, Abs(c.expected)>>)
               /\ c.expected = 0 => c.cmp.passed

\* Two calls have been made with equal arguments: x # 0 at the tolerance of
\* "exact", and 0 against 0 at a negative tolerance; both passed.
C21_Witness ==
    /\ Len(cmp_calls) = 2
    /\ cmp_calls[1].actual = 650 /\ cmp_calls[1].expected = 650
    /\ cmp_calls[1].tolerance = 0 /\ cmp_calls[1].cmp.passed
    /\ cmp_calls[2].actual = 0 /\ cmp_calls[2].expected = 0
    /\ cmp_calls[2].tolerance < 0 /\ cmp_calls[2].cmp.passed

\* C30: with expected = 0 the outcome of compare_numeric is |actual| < 0.01
\* whatever the tolerance: two calls with the same actual and expected = 0
\* agree for any two tolerances, and at the tolerance 0.0 of "exact" a
\* nonzero actual below 0.01 in absolute value passes.
C30_ZeroExpectedIgnoresTolerance ==
    /\ \A k \in 1..Len(cmp_calls) :
        cmp_calls[k].expected = 0
            => /\ cmp_calls[k].cmp.passed
                    = (Abs(cmp_calls[k].actual) < ZERO_EXPECTED_ABS_ERROR)
               /\ cmp_calls[k].cmp.rel_error = None
    /\ \A k, l \in 1..Len(cmp_calls) :
        /\ cmp_calls[k].expected = 0 /\ cmp_calls[l].expected = 0
        /\ cmp_calls[k].actual = cmp_calls[l].actual
        => cmp_calls[k].cmp = cmp_calls[l].cmp

\* 0.005 has been compared with 0 at the tolerance of "exact" and at 0.05,
\* and passed both times.
C30_Witness ==
    /\ Len(cmp_calls) = 2
    /\ cmp_calls[1].expected = 0 /\ cmp_calls[2].expected = 0
    /\ cmp_calls[1].actual = 5 /\ cmp_calls[2].actual = 5
    /\ cmp_calls[1].tolerance = 0
    /\ cmp_calls[2].tolerance = DEFAULT_TOLERANCE
    /\ cmp_calls[1].cmp.passed /\ cmp_calls[2].cmp.passed

\* ------------------------------- properties: gen_staging_guidewire_claims
\* The lifecycle order of the event types, and when a claim has the type.
LIFECYCLE ==
    <<"FNOL", "ASSIGNMENT", "RESERVE_SET", "PAYMENT", "CLOSURE", "REOPEN",
      "LITIGATION_REFERRAL">>
HasEvent(claim, ev_type) ==
    CASE ev_type = "RESERVE_SET" -> claim.reserve_amount > 0
      [] ev_type = "PAYMENT" -> claim.paid_loss_amount > 0
      [] ev_type = "CLOSURE" -> claim.claim_status \in {"CLOSED", "REOPENED"}
      [] ev_type = "REOPEN" -> claim.claim_status = "REOPENED"
      [] ev_type = "LITIGATION_REFERRAL" -> claim.litigation_flag
      [] OTHER -> TRUE

\* The rows of a claim, in eventId order.
RowsOfClaim(claim) ==
    SelectSeq(gw_rows, LAMBDA r : r.claimPublicId = <<"GW", claim.claim_id>>)

\* The event types of rows with the second copy of a type left out.
RECURSIVE EventTypes(_)
EventTypes(rows) ==
    IF rows = <<>> THEN <<>>
    ELSE IF Len(rows) >= 2 /\ rows[1].eventType = rows[2].eventType
    THEN EventTypes(Tail(rows))
    ELSE <<rows[1].eventType>> \o EventTypes(Tail(rows))

\* The events of every claim that was projected are those its attributes
\* call for, in lifecycle order, each in one or two copies; eventIds
\* count the rows.
EventsFollowTheClaim ==
    /\ \A k \in 1..Len(gw_rows) : gw_rows[k].eventId = k
    /\ stage = "gw_claims" /\ pc = "done" =>
        \A c \in 1..Len(claims) :
            LET rows == RowsOfClaim(claims[c]) IN
            rows # <<>> =>
                /\ EventTypes(rows)
                    = SelectSeq(LIFECYCLE,
                                LAMBDA ev : HasEvent(claims[c], ev))
                /\ Len(rows) <= 2 * Len(EventTypes(rows))

\* The two copies of a duplicated event have different extraction
\* timestamps.
CopiesDiffer ==
    \A k \in 2..Len(gw_rows) :
        /\ gw_rows[k].claimPublicId = gw_rows[k - 1].claimPublicId
        /\ gw_rows[k].eventType = gw_rows[k - 1].eventType
        => gw_rows[k].extractTimestamp # gw_rows[k - 1].extractTimestamp

\* C28: the event types of a projected claim are determined by the claim's
\* attributes alone (FNOL and ASSIGNMENT always, RESERVE_SET, PAYMENT,
\* CLOSURE, REOPEN and LITIGATION_REFERRAL by reserve, paid loss, status
\* and litigation flag), they come in lifecycle order by eventId, and the
\* two copies of a duplicated event have the same eventType and different
\* extraction timestamps.
C28_EventsDerivedFromTheClaim ==
    EventsFollowTheClaim /\ CopiesDiffer

\* ---------------------------------------------------------- specification
\* The inputs of the generators that take the policy list: the lists
\* gen_policies_with_cdc returns when, of its draws, only the line of
\* business, the effective date, the number of versions and the soft
\* delete of a version differ from their defaults.
InputBaseDraws ==
    [lob |-> RandChoice(LOB_CODES), eff |-> RandDate, d_binding |-> {1},
     d_issue |-> {0}, d_entry |-> {0}, d_booking |-> {0},
     status |-> {POLICY_STATUSES[1]}, num_versions |-> {1, 2, 3}]

InputVersionDraws == {VersionDefault, [VersionDefault EXCEPT !.del = TRUE]}

\* The draws of one policy with at most k non-default draws.
InputPolicyDraws(k) ==
    UNION { {[b |-> b, d |-> d] :
                d \in {ds \in [1..b.num_versions -> InputVersionDraws] :
                          ~ds[b.num_versions].del} } :
            b \in Choices(InputBaseDraws, PolicyBaseDefault, k) }

RECURSIVE VersionsCost(_, _, _)
VersionsCost(ds, v, num_versions) ==
    IF v = num_versions THEN 0
    ELSE VersionCost(ds[v + 1], v, num_versions)
         + VersionsCost(ds, v + 1, num_versions)

RECURSIVE PoliciesCost(_, _)
PoliciesCost(draws, pid) ==
    IF pid = 0 THEN 0
    ELSE PolicyBaseCost(draws[pid].b)
         + VersionsCost(draws[pid].d, 0, draws[pid].b.num_versions)
         + PoliciesCost(draws, pid - 1)

\* The inputs of gen_claim_transactions: the lists gen_claims returns when,
\* of its draws, only the policy picked and the soft delete differ from
\* their defaults.
InputClaimDraws(num_current) ==
    {[ClaimDefault EXCEPT !.pol = p, !.del = d] :
        p \in 1..num_current, d \in RandBool}

RECURSIVE ClaimsCost(_, _)
ClaimsCost(draws, k) ==
    IF k = 0 THEN 0 ELSE ClaimCost(draws[k]) + ClaimsCost(draws, k - 1)

\* The harness before run_eval is called.
EvalIdle ==
    /\ q = None /\ agent_answer = None /\ agent_calls = <<>>
    /\ score = None /\ results = <<>>
    /\ gold_ran = FALSE /\ error = ""

\* The gold metrics engine before compute_gold_metrics is called.
GoldIdle ==
    /\ lob_year = <<>> /\ gold_uw = <<>> /\ gold_runs = <<>>

\* The generator under way, its input as an earlier generator returns it,
\* its locals as they are before its first loop iteration.
Init ==
    /\ stage \in {"policies", "coverages", "claims", "claim_txns",
                  "premium_txns", "quotes"}
    /\ pc = "outer"
    /\ i = 1 /\ j = 0 /\ n = 0 /\ base = None
    /\ next_id = IF stage = "policies" THEN 0 ELSE 1
    /\ coverages = <<>> /\ claim_txns = <<>> /\ premium_txns = <<>>
    /\ quotes = <<>>
    /\ EvalIdle /\ GoldIdle /\ cmp_calls = <<>> /\ gw_rows = <<>>
    /\ IF stage \in {"policies", "quotes"}
       THEN policies = <<>> /\ claims = <<>> /\ budget = MaxDraws
       ELSE \E pd \in [1..NUM_POLICIES -> InputPolicyDraws(MaxDraws)] :
            /\ PoliciesCost(pd, NUM_POLICIES) <= MaxDraws
            /\ policies = GenPolicies(pd, NUM_POLICIES)
            /\ IF stage # "claim_txns"
               THEN /\ claims = <<>>
                    /\ budget = MaxDraws - PoliciesCost(pd, NUM_POLICIES)
               ELSE \E cd \in [1..NUM_CLAIMS ->
                                 InputClaimDraws(NUM_POLICIES)] :
                    /\ PoliciesCost(pd, NUM_POLICIES)
                       + ClaimsCost(cd, NUM_CLAIMS) <= MaxDraws
                    /\ claims = GenClaims(policies, cd, NUM_CLAIMS)
                    /\ budget = MaxDraws - PoliciesCost(pd, NUM_POLICIES)
                                - ClaimsCost(cd, NUM_CLAIMS)

Next ==
    \/ PolicyBegin \/ PolicyVersion \/ PolicyReturn
    \/ CoverageBegin \/ CoverageAppend \/ CoverageReturn
    \/ ClaimAppend \/ ClaimsReturn
    \/ ClaimTxnBegin \/ ClaimTxnAppend \/ ClaimTxnReturn
    \/ PremiumBegin \/ PremiumAppend \/ PremiumReturn
    \/ QuoteAppend \/ QuotesReturn

Spec == Init /\ [][Next]_vars

\* run_eval is called with a batch of n questions (main exits before the
\* call on an empty batch, lines 334-336); no generator runs.
EvalInit ==
    /\ stage = "eval" /\ pc = "outer"
    /\ i = 1 /\ n \in 1..MaxQuestions
    /\ budget = 0 /\ j = 0 /\ base = None /\ next_id = 0
    /\ policies = <<>> /\ coverages = <<>> /\ claims = <<>>
    /\ claim_txns = <<>> /\ premium_txns = <<>> /\ quotes = <<>>
    /\ EvalIdle /\ GoldIdle /\ cmp_calls = <<>> /\ gw_rows = <<>>

EvalNext ==
    \/ EvalCallAgent \/ ScoreQualitative \/ ScoreGold \/ ScoreCompare
    \/ EvalAppend \/ EvalReturn

EvalSpec == EvalInit /\ [][EvalNext]_vars

\* compute_gold_metrics is about to be called on lists the generators
\* return (its coverages argument is never read); no generator runs. The
\* draws of the lists leave one non-default draw to the engine.
GoldInit ==
    /\ stage = "gold" /\ pc = "outer"
    /\ i = 1 /\ j = 0 /\ n = 0 /\ base = None /\ next_id = 0
    /\ coverages = <<>> /\ claim_txns = <<>>
    /\ EvalIdle /\ GoldIdle /\ cmp_calls = <<>> /\ gw_rows = <<>>
    /\ \E pd \in SeqChoices(GoldPolicyDraws, GoldPolicyBase, MaxDraws - 1) :
       \E k1 \in {MaxDraws - 1 - DevCount(pd, GoldPolicyBase)} :
       \E cd \in SeqChoices(GoldClaimDraws, GoldClaimBase, k1) :
       \E k2 \in {k1 - DevCount(cd, GoldClaimBase)} :
       \E td \in SeqChoices(GoldPremiumDraws, GoldPremiumBase, k2) :
       \E k3 \in {k2 - DevCount(td, GoldPremiumBase)} :
       \E qd \in SeqChoices(GoldQuoteDraws, GoldQuoteBase, k3) :
        /\ policies =
            WithPolicyAmounts(
                GenPolicies([p \in 1..NUM_POLICIES |-> GoldPolicyInput(pd[p])],
                            NUM_POLICIES),
                [p \in 1..NUM_POLICIES |-> PolicyAmountDefault])
        /\ claims =
            WithClaimAmounts(
                GenClaims(policies,
                          [c \in 1..NUM_CLAIMS |-> GoldClaimInput(cd[c])],
                          NUM_CLAIMS),
                [c \in 1..NUM_CLAIMS |-> ClaimAmountDefault])
        /\ premium_txns =
            GenPremiumTxns(policies,
                           [p \in 1..NUM_POLICIES |->
                               GoldPremiumInput(td[p])])
        /\ quotes =
            GenQuotes([c \in 1..NUM_QUOTES |->
                          [QuoteDefault EXCEPT !.status = qd[c].status]],
                      [c \in 1..NUM_QUOTES |-> QuoteAmountDefault],
                      NUM_QUOTES)
        /\ budget = 1 + k3 - DevCount(qd, GoldQuoteBase)

GoldNext ==
    \/ GoldCall \/ GoldPolicy \/ GoldLobYear \/ GoldUw \/ GoldReturn

GoldSpec == GoldInit /\ [][GoldNext]_vars

\* compare_numeric is called on its own; no generator, harness or engine
\* runs.
CmpInit ==
    /\ stage = "compare_numeric" /\ pc = "outer"
    /\ i = 1 /\ j = 0 /\ n = 0 /\ base = None /\ next_id = 0 /\ budget = 0
    /\ policies = <<>> /\ coverages = <<>> /\ claims = <<>>
    /\ claim_txns = <<>> /\ premium_txns = <<>> /\ quotes = <<>>
    /\ EvalIdle /\ GoldIdle /\ cmp_calls = <<>> /\ gw_rows = <<>>

CmpNext == CompareNumericCall

CmpSpec == CmpInit /\ [][CmpNext]_vars

\* The inputs of gen_staging_guidewire_claims: the lists gen_claims returns
\* when, of its draws, only those the events are derived from differ from
\* their defaults: closed, reopened, the status drawn, the paid loss, the
\* litigation flag.
GwClaimDraws ==
    Choices([is_closed |-> RandBool, reopen |-> RandBool,
             status |-> RandChoice(CLAIM_STATUSES),
             paid_loss |-> RandAmount(0, 150000),
             litigation |-> RandBool]
            @@ [f \in DOMAIN ClaimDefault |-> {ClaimDefault[f]}],
            ClaimDefault, MaxDraws)

\* gen_staging_guidewire_claims is called on the claims of gen_claims (line
\* 1214), the policies being those of default draws; event_id starts at 1.
GwInit ==
    /\ stage = "gw_claims" /\ pc = "outer"
    /\ i = 1 /\ j = 0 /\ n = 0 /\ base = None /\ next_id = 1
    /\ coverages = <<>> /\ claim_txns = <<>> /\ premium_txns = <<>>
    /\ quotes = <<>>
    /\ EvalIdle /\ GoldIdle /\ cmp_calls = <<>> /\ gw_rows = <<>>
    /\ policies = GenPolicies([p \in 1..NUM_POLICIES |->
                                  [b |-> PolicyBaseDefault,
                                   d |-> <<VersionDefault>>]],
                              NUM_POLICIES)
    /\ \E cd \in [1..NUM_CLAIMS -> GwClaimDraws] :
        /\ ClaimsCost(cd, NUM_CLAIMS) <= MaxDraws
        /\ claims = GenClaims(policies, cd, NUM_CLAIMS)
        /\ budget = MaxDraws - ClaimsCost(cd, NUM_CLAIMS)

GwNext == GwClaimBegin \/ GwEvent \/ GwReturn

GwSpec == GwInit /\ [][GwNext]_vars
====
